---- MODULE Spec2Model ----
(***************************************************************************)
(* react-triage: the diagnosis engine (diagnose / calculateScore), the     *)
(* exit policy (evaluateFailOnPolicy) and the Vercel rule sweep            *)
(* (runVercelRules), as state machines over the values the code handles.   *)
(***************************************************************************)
EXTENDS Integers, Sequences, FiniteSets, TLC

\* ------------------------------------------------------------------ types

\* JavaScript null, for the string|null fields of ProjectStats.
NULL == "<null>"

Severity == {"critical", "performance", "best-practice", "info"}

VulnerabilitySeverity == {"critical", "high", "moderate", "low"}

\* if (x) on a string|null value: null and "" are falsy.
Truthy(v) == v # NULL /\ v # ""

\* A TriageIssue; message, help, column and url are carried through unread.
Issue(sev, rule, file, line) ==
  [severity |-> sev, rule |-> rule, file |-> file, line |-> line]

\* A DependencyIssue.
DepIssue(type, sev) == [type |-> type, severity |-> sev]

\* A SecurityVulnerability.
Vuln(id, sev) == [id |-> id, severity |-> sev]

\* ------------------------------------------------------------------ bounds

\* Files the linter / the project-stats sweep may count.
MaxFiles == 2

\* Findings over all five finding streams of one aggregation.
MaxIssues == 3

\* Findings of a scored result, dependency issues, advisories, components.
MaxScoreIssues == 3
MaxDepIssues == 1
MaxVulns == 7
MaxComponents == 5

\* Advisories of a result the exit policy is evaluated on.
MaxPolicyVulns == 2

\* Files the glob of the rule sweep yields, and rules of the registry run.
MaxScanFiles == 2
MaxRules == 3

\* Arguments on a command line.
MaxArgs == 3

\* Diagnostics in one report of the linter.
MaxDiagnostics == 2

\* Advisories in one report of the audit.
MaxAdvisories == 3

\* Advisories in a report that is printed with text or a brace around it.
MaxFramed == 1

\* ------------------------------------------------------------------ helpers

RECURSIVE Concat(_)
Concat(seqs) == IF seqs = <<>> THEN <<>> ELSE Head(seqs) \o Concat(Tail(seqs))

Repeat(x, n) == [i \in 1..n |-> x]

\* list.filter((x) => x.severity === sev).length
CountSeverity(list, sev) == Cardinality({i \in 1..Len(list) : list[i].severity = sev})

Max(a, b) == IF a >= b THEN a ELSE b
Min(a, b) == IF a <= b THEN a ELSE b

\* ------------------------------------------------------------------ scoring

SCORE_PENALTIES_perf5 ==
  ("critical" :> 10) @@ ("performance" :> 5) @@ ("best-practice" :> 1) @@ ("info" :> 0)

SCORE_PENALTIES ==
  ("critical" :> 10) @@ ("performance" :> 3) @@ ("best-practice" :> 1) @@ ("info" :> 0)

\* for (const x of list) score -= SCORE_PENALTIES[x.severity]
RECURSIVE DeductEach(_, _)
DeductEach(score, list) ==
  IF list = <<>> THEN score
  ELSE DeductEach(score - SCORE_PENALTIES[Head(list).severity], Tail(list))

\* clientComponents / total > tenths/10.  The quotient and the literal are
\* both correctly rounded doubles, so for counts below 2^50 the comparison
\* agrees with the exact one on the rationals: 10*c > tenths*total.
RatioAbove_orEqual(client, total, tenths) == 10 * client >= tenths * total

RatioAbove(client, total, tenths) == 10 * client > tenths * total

ClientRatioPenalty_anyProject(stats) ==
  LET total == stats.clientComponents + stats.serverComponents IN
  IF total > 0
  THEN IF RatioAbove(stats.clientComponents, total, 8) THEN 5
       ELSE IF RatioAbove(stats.clientComponents, total, 6) THEN 2
       ELSE 0
  ELSE 0

ClientRatioPenalty(stats) ==
  IF Truthy(stats.nextVersion)
  THEN LET total == stats.clientComponents + stats.serverComponents IN
       IF total > 0
       THEN IF RatioAbove(stats.clientComponents, total, 8) THEN 5
            ELSE IF RatioAbove(stats.clientComponents, total, 6) THEN 2
            ELSE 0
       ELSE 0
  ELSE 0

\* Math.round: floor(x + 1/2)
MathRound(x) == (2 * x + 1) \div 2

Clamp_noFloor(score) == Min(100, MathRound(score))

\* Math.max(0, Math.min(100, Math.round(score)))
Clamp(score) == Max(0, Min(100, MathRound(score)))

CalculateScore(issues, depIssues, securityAudit, stats) ==
  LET s1 == DeductEach(100, issues)
      s2 == DeductEach(s1, depIssues)
      s3 == s2 - securityAudit.summary.critical * 15
               - securityAudit.summary.high * 8
               - securityAudit.summary.moderate * 3
               - securityAudit.summary.low * 1
      s4 == s3 - ClientRatioPenalty(stats)
  IN  Clamp(s4)

\* ------------------------------------------------------------------ diagnose

\* The eight promises handed to Promise.all, in that order.
Collaborators ==
  <<"oxlint", "deps", "tsconfig", "stats", "asyncClient", "console", "vercel", "security">>

CollaboratorSet == {Collaborators[i] : i \in 1..Len(Collaborators)}

\* runSecurityAudit wraps its whole body in try/catch; every other
\* collaborator spawns a process or reads files outside any try block.
CanReject == CollaboratorSet \ {"security"}

SeverityOrder ==
  ("critical" :> 0) @@ ("performance" :> 1) @@ ("best-practice" :> 2) @@ ("info" :> 3)

\* (a, b) => severityOrder[a.severity] - severityOrder[b.severity]
Compare(a, b) == SeverityOrder[a.severity] - SeverityOrder[b.severity]

RECURSIVE InsertStable_beforeEqual(_, _)
InsertStable_beforeEqual(sorted, x) ==
  IF sorted = <<>> THEN <<x>>
  ELSE IF Compare(Head(sorted), x) >= 0 THEN <<x>> \o sorted
  ELSE <<Head(sorted)>> \o InsertStable_beforeEqual(Tail(sorted), x)

\* Array.prototype.sort is stable: an element goes behind every element
\* that does not compare greater than it.
RECURSIVE InsertStable(_, _)
InsertStable(sorted, x) ==
  IF sorted = <<>> THEN <<x>>
  ELSE IF Compare(Head(sorted), x) > 0 THEN <<x>> \o sorted
  ELSE <<Head(sorted)>> \o InsertStable(Tail(sorted), x)

RECURSIVE SortFrom(_, _)
SortFrom(sorted, rest) ==
  IF rest = <<>> THEN sorted
  ELSE SortFrom(InsertStable(sorted, Head(rest)), Tail(rest))

\* allIssues.sort(...)
SortBySeverity(list) == SortFrom(<<>>, list)

\* [...oxlintResult.issues, ...tsConfigResult.issues, ...asyncIssues,
\*  ...consoleIssues, ...vercelIssues]
CombineIssues(v) ==
  v["oxlint"].issues \o v["tsconfig"].issues \o v["asyncClient"]
    \o v["console"] \o v["vercel"]

\* { ...projectStats, strictMode, jsxTransform, target }
MergeStats(projectStats, tsConfigResult) ==
  [projectStats EXCEPT !.strictMode = tsConfigResult.strictMode,
                       !.jsxTransform = tsConfigResult.jsxTransform,
                       !.target = tsConfigResult.target]

FileCountFallback_linterCount(stats, oxlintResult, projectStats) ==
  [stats EXCEPT !.totalFiles = oxlintResult.fileCount]

\* if (oxlintResult.fileCount === 0) stats.totalFiles = projectStats.totalFiles
FileCountFallback(stats, oxlintResult, projectStats) ==
  IF oxlintResult.fileCount = 0
  THEN [stats EXCEPT !.totalFiles = projectStats.totalFiles]
  ELSE stats

\* The body of diagnose behind the await; timeTaken (wall clock) is left out.
Aggregate(v) ==
  LET stats0 == MergeStats(v["stats"], v["tsconfig"])
      allIssues == SortBySeverity(CombineIssues(v))
      stats == FileCountFallback(stats0, v["oxlint"], v["stats"])
      score == CalculateScore(allIssues, v["deps"], v["security"], stats)
  IN  [score |-> score,
       issues |-> allIssues,
       stats |-> stats,
       dependencyIssues |-> v["deps"],
       securityAudit |-> v["security"]]

\* ------------------------------------------------------------------ collaborator results

\* runSecurityAudit's result for a list of advisories (given here in the
\* order it returns them, critical -> low): the summary is counted from it.
AuditResult(vulns) ==
  [vulnerabilities |-> vulns,
   summary |->
     [total |-> Len(vulns),
      critical |-> CountSeverity(vulns, "critical"),
      high |-> CountSeverity(vulns, "high"),
      moderate |-> CountSeverity(vulns, "moderate"),
      low |-> CountSeverity(vulns, "low")]]

\* const empty = { vulnerabilities: [], summary: { total: 0, ... } }
EmptyAudit == AuditResult(<<>>)

\* gatherProjectStats' record; reactVersion, reactDomVersion and largeFiles
\* are spread into the result unread and are left out.
Stats(next, files, client, server) ==
  [nextVersion |-> next, totalFiles |-> files,
   clientComponents |-> client, serverComponents |-> server,
   strictMode |-> FALSE, jsxTransform |-> NULL, target |-> NULL]

\* What a collaborator contributes when it found nothing.
Neutral ==
  [c \in CollaboratorSet |->
     CASE c = "oxlint" -> [issues |-> <<>>, fileCount |-> 0]
       [] c = "tsconfig" ->
            [issues |-> <<>>, strictMode |-> FALSE, jsxTransform |-> NULL, target |-> NULL]
       [] c = "stats" -> Stats(NULL, 0, 0, 0)
       [] c = "security" -> EmptyAudit
       [] OTHER -> <<>>]

\* ------------------------------------------------------------------ exit policy

SecurityToIssueSeverity_highCritical ==
  ("critical" :> "critical") @@ ("high" :> "critical")
    @@ ("moderate" :> "best-practice") @@ ("low" :> "info")

SecurityToIssueSeverity ==
  ("critical" :> "critical") @@ ("high" :> "performance")
    @@ ("moderate" :> "best-practice") @@ ("low" :> "info")

MatchesSeverity_atOrAbove(found, target) == SeverityOrder[found] <= SeverityOrder[target]

MatchesSeverity(found, target) == found = target

RECURSIVE CountMatched_everyFinding(_, _, _)
CountMatched_everyFinding(matched, sevs, target) ==
  IF sevs = <<>> THEN matched
  ELSE CountMatched_everyFinding([matched EXCEPT ![Head(sevs)] = @ + 1], Tail(sevs), target)

\* The three loops that fill matchedBySeverity, over the severities met.
RECURSIVE CountMatched(_, _, _)
CountMatched(matched, sevs, target) ==
  IF sevs = <<>> THEN matched
  ELSE LET sev == Head(sevs) IN
       CountMatched(IF MatchesSeverity(sev, target)
                    THEN [matched EXCEPT ![sev] = @ + 1]
                    ELSE matched,
                    Tail(sevs), target)

\* sevs.filter((found) => matchesSeverity(found, failOn)).length
CountMatching(sevs, target) ==
  Cardinality({i \in 1..Len(sevs) : MatchesSeverity(sevs[i], target)})

\* <<>> stands for the null that is returned when no target is configured.
EvaluateFailOnPolicy(result, target) ==
  IF ~Truthy(target) THEN <<>>
  ELSE
    LET vulns == result.securityAudit.vulnerabilities
        issueSevs == [i \in 1..Len(result.issues) |-> result.issues[i].severity]
        depSevs == [i \in 1..Len(result.dependencyIssues) |->
                      result.dependencyIssues[i].severity]
        vulnSevs == [i \in 1..Len(vulns) |-> SecurityToIssueSeverity[vulns[i].severity]]
        issueMatches == CountMatching(issueSevs, target)
        dependencyMatches == CountMatching(depSevs, target)
        vulnerabilityMatches == CountMatching(vulnSevs, target)
        totalMatches == issueMatches + dependencyMatches + vulnerabilityMatches
        m0 == [sev \in Severity |-> 0]
        m1 == CountMatched(m0, issueSevs, target)
        m2 == CountMatched(m1, depSevs, target)
        m3 == CountMatched(m2, vulnSevs, target)
    IN  <<[shouldFail |-> totalMatches > 0,
           failOn |-> target,
           issueMatches |-> issueMatches,
           dependencyMatches |-> dependencyMatches,
           vulnerabilityMatches |-> vulnerabilityMatches,
           totalMatches |-> totalMatches,
           matchedBySeverity |-> m3]>>

\* ------------------------------------------------------------------ rule registry

\* A relative path as the glob yields it, character by character.
StartsWith(path, prefix) ==
  Len(path) >= Len(prefix) /\ SubSeq(path, 1, Len(prefix)) = prefix

SKIP_PREFIXES ==
  {<<"n", "o", "d", "e", "_", "m", "o", "d", "u", "l", "e", "s">>,
   <<".", "n", "e", "x", "t">>,
   <<"d", "i", "s", "t">>,
   <<"b", "u", "i", "l", "d">>,
   <<".", "g", "i", "t">>}

\* SKIP_PREFIXES.some((prefix) => filePath.startsWith(prefix))
Skipped(path) == \E prefix \in SKIP_PREFIXES : StartsWith(path, prefix)

\* The registry: of each rule its id, its declared severity, and the
\* severity its check writes into the findings it pushes.
ALL_VERCEL_RULES ==
  <<[id |-> "async-parallel", severity |-> "critical", emits |-> "critical"],
    [id |-> "async-defer-await", severity |-> "performance", emits |-> "performance"],
    [id |-> "async-dependencies", severity |-> "critical", emits |-> "critical"],
    [id |-> "async-api-routes", severity |-> "critical", emits |-> "critical"],
    [id |-> "async-suspense-boundaries", severity |-> "performance", emits |-> "performance"],
    [id |-> "bundle-dynamic-imports", severity |-> "critical", emits |-> "critical"],
    [id |-> "server-parallel-fetching", severity |-> "critical", emits |-> "critical"],
    [id |-> "server-auth-actions", severity |-> "critical", emits |-> "critical"],
    [id |-> "metadata-in-client-component", severity |-> "critical", emits |-> "critical"],
    [id |-> "navigation-in-try-catch", severity |-> "critical", emits |-> "critical"],
    [id |-> "hydration-browser-api", severity |-> "critical", emits |-> "critical"],
    [id |-> "bundle-defer-third-party", severity |-> "performance", emits |-> "performance"],
    [id |-> "bundle-conditional", severity |-> "performance", emits |-> "performance"],
    [id |-> "server-serialization", severity |-> "performance", emits |-> "performance"],
    [id |-> "server-cache-lru", severity |-> "performance", emits |-> "performance"],
    [id |-> "image-fill-missing-sizes", severity |-> "performance", emits |-> "performance"],
    [id |-> "font-manual-link", severity |-> "performance", emits |-> "performance"],
    [id |-> "composition-boolean-props", severity |-> "best-practice", emits |-> "best-practice"],
    [id |-> "composition-compound-components", severity |-> "best-practice", emits |-> "best-practice"],
    [id |-> "client-swr-dedup", severity |-> "performance", emits |-> "performance"],
    [id |-> "client-passive-event-listeners", severity |-> "performance", emits |-> "performance"],
    [id |-> "rerender-derived-state-no-effect", severity |-> "performance", emits |-> "performance"],
    [id |-> "rerender-lazy-state-init", severity |-> "performance", emits |-> "performance"],
    [id |-> "rerender-memo-default-value", severity |-> "performance", emits |-> "performance"],
    [id |-> "server-cache-react", severity |-> "performance", emits |-> "performance"],
    [id |-> "js-tosorted-immutable", severity |-> "performance", emits |-> "performance"],
    [id |-> "use-next-og", severity |-> "best-practice", emits |-> "best-practice"],
    [id |-> "rendering-conditional-render", severity |-> "best-practice", emits |-> "best-practice"],
    [id |-> "server-dedup-props", severity |-> "performance", emits |-> "performance"]>>

\* Paths a glob for **/*.{tsx,jsx,ts,js} can yield: a.tsx, dist/a.js,
\* distro.ts and x/dist/a.js.
SamplePaths ==
  {<<"a", ".", "t", "s", "x">>,
   <<"d", "i", "s", "t", "/", "a", ".", "j", "s">>,
   <<"d", "i", "s", "t", "r", "o", ".", "t", "s">>,
   <<"x", "/", "d", "i", "s", "t", "/", "a", ".", "j", "s">>}

\* What one rule.check(filePath, content) call does: it returns no
\* finding, returns one, or throws.
CheckOutcomes == {"none", "found", "throws"}

\* ------------------------------------------------------------------ state

VARIABLES
  promise,          \* per collaborator: "pending", "fulfilled" or "rejected"
  value,            \* per collaborator: what its promise resolved to
  diagnosePromise,  \* the promise diagnose returns
  scanResult,       \* <<>> or <<the ScanResult diagnose resolved with>>
  failOn,           \* cliOptions.failOn: a severity or NULL
  policyDone,       \* evaluateFailOnPolicy has returned
  policyResult,     \* what it returned: <<>> for null, or <<the record>>
  scanFiles,        \* the paths the glob of runVercelRules yields, in order
  fileIdx,          \* how many of them the loop has taken
  checkLog,         \* per file taken: the path and what each rule's check did
  vercelIssues,     \* the issues array of runVercelRules
  vercelPc,         \* "idle", "scanning", "returned" or "rejected"
  ruleBase,         \* how many rules of the registry stand before those looked at
  args,             \* process.argv.slice(2): a sequence of character sequences
  cliPc,            \* where the command line program stands
  toMarkdown,       \* cliOptions.toMarkdown: <<>> for null, or <<the path>>
  targetPath,       \* the directory handed to diagnose
  exitCode,         \* <<>> while the process runs, then <<its exit status>>
  proc,             \* <<>>, or <<what a spawned tool does: spawned, stdout, stderr>>
  project,          \* <<>>, or <<what a check reads: a manifest and source files, or one file>>
  settled           \* the collaborators whose promises have resolved, in the order they did

diagVars == <<promise, value, diagnosePromise, scanResult>>

policyVars == <<failOn, policyDone, policyResult>>

vercelVars == <<scanFiles, fileIdx, checkLog, vercelIssues, vercelPc, ruleBase>>

cliVars == <<args, cliPc, toMarkdown, targetPath, exitCode>>

vars == <<promise, value, diagnosePromise, scanResult, failOn, policyDone,
          policyResult, scanFiles, fileIdx, checkLog, vercelIssues, vercelPc,
          args, cliPc, toMarkdown, targetPath, exitCode, proc, project, settled, ruleBase>>

\* The rules looked at in a sweep: on the files swept, the rules before
\* and behind them find nothing.
RulesRun == SubSeq(ALL_VERCEL_RULES, ruleBase + 1, ruleBase + MaxRules)

RECURSIVE RunRules_firstRuleSeverity(_, _, _, _)
RunRules_firstRuleSeverity(path, outcome, k, found) ==
  IF k > Len(RulesRun) THEN [issues |-> found, threw |-> FALSE]
  ELSE IF outcome[k] = "throws" THEN [issues |-> found, threw |-> TRUE]
  ELSE RunRules_firstRuleSeverity(path, outcome, k + 1,
         IF outcome[k] = "found"
         THEN Append(found, Issue(RulesRun[1].emits, RulesRun[k].id, path, 1))
         ELSE found)

\* for (const rule of ALL_VERCEL_RULES) issues.push(...rule.check(...)),
\* from rule k on: <<the findings pushed, whether a check threw>>.
RECURSIVE RunRules(_, _, _, _)
RunRules(path, outcome, k, found) ==
  IF k > Len(RulesRun) THEN [issues |-> found, threw |-> FALSE]
  ELSE IF outcome[k] = "throws" THEN [issues |-> found, threw |-> TRUE]
  ELSE RunRules(path, outcome, k + 1,
                IF outcome[k] = "found"
                THEN Append(found, Issue(RulesRun[k].emits, RulesRun[k].id, path, 1))
                ELSE found)

\* No exit policy is configured or evaluated.
PolicyIdle == failOn = NULL /\ policyDone = FALSE /\ policyResult = <<>>

\* The rule sweep is not looked into.
VercelIdle ==
  /\ scanFiles = <<>>
  /\ fileIdx = 0
  /\ checkLog = <<>>
  /\ vercelIssues = <<>>
  /\ vercelPc = "idle"
  /\ ruleBase = 0

\* The command line program and the spawned tools are not looked into.
CliIdle ==
  /\ args = <<>>
  /\ cliPc = "idle"
  /\ toMarkdown = <<>>
  /\ targetPath = <<>>
  /\ exitCode = <<>>
  /\ project = <<>>
  /\ proc = <<>>

\* diagnose is not running.
DiagIdle ==
  /\ settled = <<>>
  /\ promise = [c \in CollaboratorSet |-> "pending"]
  /\ value = Neutral
  /\ diagnosePromise = "idle"
  /\ scanResult = <<>>

\* What each collaborator may resolve to in the concurrent specification:
\* nothing found, or one representative result; the linter may also print
\* one diagnostic twice.
Outputs(c) ==
  CASE c = "oxlint" ->
         {[issues |-> i, fileCount |-> n] :
            i \in {<<>>, <<Issue("performance", "exhaustive-deps", "src/App.tsx", 7),
                          Issue("critical", "rules-of-hooks", "src/App.tsx", 9)>>,
                    <<Issue("critical", "jsx-key", "src/List.tsx", 4),
                      Issue("critical", "jsx-key", "src/List.tsx", 4)>>},
            n \in 0..MaxFiles}
    [] c = "deps" -> {<<>>, <<DepIssue("unused", "performance")>>}
    [] c = "tsconfig" ->
         {[issues |-> <<Issue("best-practice", "tsconfig-missing", "tsconfig.json", 0)>>,
           strictMode |-> FALSE, jsxTransform |-> NULL, target |-> NULL],
          [issues |-> <<>>, strictMode |-> TRUE, jsxTransform |-> "react-jsx",
           target |-> "ES2022"]}
    [] c = "stats" -> {Stats(NULL, n, 0, 0) : n \in 0..MaxFiles}
    [] c = "asyncClient" ->
         {<<>>, <<Issue("critical", "async-client-component", "src/Page.tsx", 1)>>}
    [] c = "console" -> {<<>>, <<Issue("info", "no-console", "src/App.tsx", 3)>>}
    [] c = "vercel" ->
         {<<>>, <<Issue("critical", "async-parallel", "src/api.ts", 4),
                  Issue("performance", "bundle-conditional", "src/api.ts", 1)>>}
    [] c = "security" -> {EmptyAudit, AuditResult(<<Vuln(1, "high")>>)}

\* diagnose has called the eight functions and awaits Promise.all.
Init ==
  /\ settled = <<>>
  /\ promise = [c \in CollaboratorSet |-> "pending"]
  /\ value = Neutral
  /\ diagnosePromise = "pending"
  /\ scanResult = <<>>
  /\ PolicyIdle
  /\ VercelIdle
  /\ CliIdle

\* A collaborator returns.
Fulfil(c) ==
  /\ promise[c] = "pending"
  /\ \E out \in Outputs(c) : value' = [value EXCEPT ![c] = out]
  /\ promise' = [promise EXCEPT ![c] = "fulfilled"]
  /\ UNCHANGED <<diagnosePromise, scanResult, policyVars, vercelVars, cliVars, proc, project, settled>>

\* A collaborator throws; Promise.all rejects with the first rejection, and
\* with it the await and diagnose itself, which has no try/catch.
Reject(c) ==
  /\ c \in CanReject
  /\ promise[c] = "pending"
  /\ promise' = [promise EXCEPT ![c] = "rejected"]
  /\ diagnosePromise' =
       IF diagnosePromise = "pending" THEN "rejected" ELSE diagnosePromise
  /\ UNCHANGED <<value, scanResult, policyVars, vercelVars, cliVars, proc, project, settled>>

AllSettled_any(p) == \E c \in CollaboratorSet : p[c] = "fulfilled"

\* Promise.all resolves once every promise has.
AllSettled(p) == \A c \in CollaboratorSet : p[c] = "fulfilled"

\* The continuation of diagnose behind await Promise.all([...]).
DiagnoseResolve ==
  /\ diagnosePromise = "pending"
  /\ AllSettled(promise)
  /\ scanResult' = <<Aggregate(value)>>
  /\ diagnosePromise' = "fulfilled"
  /\ UNCHANGED <<promise, value, policyVars, vercelVars, cliVars, proc, project, settled>>

Next ==
  \/ \E c \in CollaboratorSet : Fulfil(c)
  \/ \E c \in CollaboratorSet : Reject(c)
  \/ DiagnoseResolve

Spec == Init /\ [][Next]_vars

\* ------------------------------------------------------------------ the aggregation alone

SeqsUpTo(S, n) == UNION {[1..k -> S] : k \in 0..n}

\* The five finding streams, in the order diagnose concatenates them.
IssueSources == <<"oxlint", "tsconfig", "asyncClient", "console", "vercel">>

\* Finding streams of at most MaxIssues findings in all: the severities of
\* the concatenation, and for each position the stream it came from.
StreamSplits ==
  {sp \in UNION {[sevs : {sv}, src : [1..Len(sv) -> 1..Len(IssueSources)]] :
                   sv \in SeqsUpTo(Severity, MaxIssues)} :
     \A i \in 1..(Len(sp.sevs) - 1) : sp.src[i] <= sp.src[i + 1]}

\* The k-th stream of a split; a finding is named by its stream and its
\* position in it.
StreamOf(sp, k) ==
  LET idx == {i \in 1..Len(sp.sevs) : sp.src[i] = k}
      first == CHOOSE i \in idx : \A j \in idx : i <= j
  IN  [j \in 1..Cardinality(idx) |->
         Issue(sp.sevs[first + j - 1], IssueSources[k], "src/a.tsx", j)]

ValueOfStreams(sp) ==
  [Neutral EXCEPT
     !["oxlint"] = [issues |-> StreamOf(sp, 1), fileCount |-> 1],
     !["tsconfig"] = [issues |-> StreamOf(sp, 2), strictMode |-> FALSE,
                      jsxTransform |-> NULL, target |-> NULL],
     !["asyncClient"] = StreamOf(sp, 3),
     !["console"] = StreamOf(sp, 4),
     !["vercel"] = StreamOf(sp, 5)]

\* All eight collaborators have returned; diagnose is about to continue.
Awaited(v) ==
  /\ settled = <<>>
  /\ promise = [c \in CollaboratorSet |-> "fulfilled"]
  /\ value = v
  /\ diagnosePromise = "pending"
  /\ scanResult = <<>>
  /\ VercelIdle
  /\ CliIdle

InitAggregate == PolicyIdle /\ \E sp \in StreamSplits : Awaited(ValueOfStreams(sp))

NextAggregate == DiagnoseResolve

SpecAggregate == InitAggregate /\ [][NextAggregate]_vars

\* ------------------------------------------------------------------ the score alone

\* How many findings of each severity: <<critical, performance,
\* best-practice, info>>, at most n in all.
CountsUpTo(n) ==
  {c \in [1..4 -> 0..n] : c[1] + c[2] + c[3] + c[4] <= n}

SeverityList == <<"critical", "performance", "best-practice", "info">>

VulnSeverityList == <<"critical", "high", "moderate", "low">>

IssuesOf(c) ==
  Concat([k \in 1..4 |->
            [j \in 1..c[k] |-> Issue(SeverityList[k], "rule", "src/a.tsx", j)]])

DepIssuesOf(c) ==
  Concat([k \in 1..4 |-> Repeat(DepIssue("unused", SeverityList[k]), c[k])])

\* Audit results of up to MaxVulns advisories of one severity.
AuditResults ==
  {AuditResult([j \in 1..n |-> Vuln(j, sev)]) :
     n \in 0..MaxVulns, sev \in VulnerabilitySeverity}

\* null, a range that strips to the empty string (">="), a version.
NextVersions == {NULL, "", "14.2.3"}

ProjectStatsSet ==
  {Stats(nv, cs[1] + cs[2], cs[1], cs[2]) :
     nv \in NextVersions,
     cs \in {p \in (0..MaxComponents) \X (0..MaxComponents) :
               p[1] + p[2] <= MaxComponents}}

ValueOfScore(ic, dc, audit, st) ==
  [Neutral EXCEPT
     !["oxlint"] = [issues |-> <<>>, fileCount |-> st.totalFiles],
     !["vercel"] = IssuesOf(ic),
     !["deps"] = DepIssuesOf(dc),
     !["security"] = audit,
     !["stats"] = st]

\* A project without Next.js and without components, and an all-client one.
PlainStats == {Stats(NULL, 0, 0, 0), Stats("14.2.3", MaxComponents, MaxComponents, 0)}

\* Every mix of findings with the plain stats, and every stats record with
\* every audit result and at most one finding.
InitScore ==
  /\ PolicyIdle
  /\ \/ \E ic \in CountsUpTo(MaxScoreIssues), dc \in CountsUpTo(MaxDepIssues),
           audit \in AuditResults, st \in PlainStats :
             Awaited(ValueOfScore(ic, dc, audit, st))
     \/ \E ic \in CountsUpTo(1), audit \in AuditResults, st \in ProjectStatsSet :
             Awaited(ValueOfScore(ic, [k \in 1..4 |-> 0], audit, st))

NextScore == DiagnoseResolve

SpecScore == InitScore /\ [][NextScore]_vars

\* ------------------------------------------------------------------ the exit policy alone

VulnsOf(c) ==
  LET sevs == Concat([k \in 1..4 |-> Repeat(VulnSeverityList[k], c[k])])
  IN  [j \in 1..Len(sevs) |-> Vuln(j, sevs[j])]

ValueOfPolicy(ic, dc, vc) ==
  [Neutral EXCEPT
     !["oxlint"] = [issues |-> IssuesOf(ic), fileCount |-> 1],
     !["deps"] = DepIssuesOf(dc),
     !["security"] = AuditResult(VulnsOf(vc))]

\* The command line was parsed (--fail-on given or not) and the scan awaits
\* its collaborators' results.
InitPolicy ==
  /\ failOn \in Severity \cup {NULL}
  /\ policyDone = FALSE
  /\ policyResult = <<>>
  /\ \E ic \in CountsUpTo(MaxScoreIssues), dc \in CountsUpTo(MaxDepIssues),
        vc \in CountsUpTo(MaxPolicyVulns) :
          Awaited(ValueOfPolicy(ic, dc, vc))

\* const failOnPolicy = evaluateFailOnPolicy(result, cliOptions.failOn)
EvaluatePolicy ==
  /\ diagnosePromise = "fulfilled"
  /\ ~policyDone
  /\ policyResult' = EvaluateFailOnPolicy(scanResult[1], failOn)
  /\ policyDone' = TRUE
  /\ UNCHANGED <<diagVars, failOn, vercelVars, cliVars, proc, project, settled>>

NextPolicy == DiagnoseResolve \/ EvaluatePolicy

SpecPolicy == InitPolicy /\ [][NextPolicy]_vars

\* ------------------------------------------------------------------ the rule sweep alone

\* The sequences of at most n distinct elements of S.
DistinctSeqs(S, n) ==
  {q \in SeqsUpTo(S, n) : \A i, j \in 1..Len(q) : i # j => q[i] # q[j]}

\* runVercelRules has been called; the glob will yield scanFiles.
InitVercel ==
  /\ DiagIdle
  /\ PolicyIdle
  /\ CliIdle
  /\ scanFiles \in DistinctSeqs(SamplePaths, MaxScanFiles)
  /\ fileIdx = 0
  /\ checkLog = <<>>
  /\ vercelIssues = <<>>
  /\ vercelPc = "scanning"
  /\ ruleBase \in 0..(Len(ALL_VERCEL_RULES) - MaxRules)

NextPath == scanFiles[fileIdx + 1]

\* if (SKIP_PREFIXES.some(...)) continue
SkipFile ==
  /\ vercelPc = "scanning"
  /\ fileIdx < Len(scanFiles)
  /\ Skipped(NextPath)
  /\ fileIdx' = fileIdx + 1
  /\ UNCHANGED <<scanFiles, checkLog, vercelIssues, vercelPc, diagVars, policyVars, cliVars, proc, project, settled, ruleBase>>

\* await Bun.file(absPath).text() rejects: nothing catches it.
ReadThrows ==
  /\ vercelPc = "scanning"
  /\ fileIdx < Len(scanFiles)
  /\ ~Skipped(NextPath)
  /\ fileIdx' = fileIdx + 1
  /\ vercelPc' = "rejected"
  /\ UNCHANGED <<scanFiles, checkLog, vercelIssues, diagVars, policyVars, cliVars, proc, project, settled, ruleBase>>

\* The calls made up to and including the first one that threw.
CallsMade(outcome) ==
  LET throwing == {k \in 1..Len(outcome) : outcome[k] = "throws"}
  IN  IF throwing = {} THEN outcome
      ELSE SubSeq(outcome, 1, CHOOSE k \in throwing : \A j \in throwing : k <= j)

\* One file is read and every rule is run on it; a check that throws ends
\* the loop, the function and its promise.
CheckFile ==
  /\ vercelPc = "scanning"
  /\ fileIdx < Len(scanFiles)
  /\ ~Skipped(NextPath)
  /\ \E outcome \in [1..Len(RulesRun) -> CheckOutcomes] :
       LET r == RunRules(NextPath, outcome, 1, <<>>) IN
       /\ vercelIssues' = vercelIssues \o r.issues
       /\ vercelPc' = IF r.threw THEN "rejected" ELSE "scanning"
       /\ checkLog' = Append(checkLog, [path |-> NextPath, calls |-> CallsMade(outcome)])
  /\ fileIdx' = fileIdx + 1
  /\ UNCHANGED <<scanFiles, diagVars, policyVars, cliVars, proc, project, settled, ruleBase>>

\* return issues
ReturnIssues ==
  /\ vercelPc = "scanning"
  /\ fileIdx = Len(scanFiles)
  /\ vercelPc' = "returned"
  /\ UNCHANGED <<scanFiles, fileIdx, checkLog, vercelIssues, diagVars, policyVars, cliVars, proc, project, settled, ruleBase>>

NextVercel == SkipFile \/ ReadThrows \/ CheckFile \/ ReturnIssues

SpecVercel == InitVercel /\ [][NextVercel]_vars

\* ------------------------------------------------------------------ the command line program

\* "--"
DASHES == <<"-", "-">>

\* "--fail-on", "--to-markdown="
FAIL_ON_FLAG == <<"-", "-", "f", "a", "i", "l", "-", "o", "n">>

TO_MARKDOWN_PREFIX == <<"-", "-", "t", "o", "-", "m", "a", "r", "k", "d", "o", "w", "n", "=">>

\* "--help", "-h", "--version", "-v"
HELP_FLAGS == {<<"-", "-", "h", "e", "l", "p">>, <<"-", "h">>}

VERSION_FLAGS == {<<"-", "-", "v", "e", "r", "s", "i", "o", "n">>, <<"-", "v">>}

\* const validSeverities = ["critical", "performance", "best-practice", "info"]
validSeverities ==
  <<<<"c", "r", "i", "t", "i", "c", "a", "l">>,
    <<"p", "e", "r", "f", "o", "r", "m", "a", "n", "c", "e">>,
    <<"b", "e", "s", "t", "-", "p", "r", "a", "c", "t", "i", "c", "e">>,
    <<"i", "n", "f", "o">>>>

\* failOnRaw as Severity: the cast checks nothing.
AsSeverity(chars) ==
  CASE chars = validSeverities[1] -> "critical"
    [] chars = validSeverities[2] -> "performance"
    [] chars = validSeverities[3] -> "best-practice"
    [] chars = validSeverities[4] -> "info"
    [] OTHER -> "<no severity>"

\* list.includes(x)
Includes(list, x) == \E i \in 1..Len(list) : list[i] = x

\* The least index of a non-empty set of indices.
First(idx) == CHOOSE i \in idx : \A j \in idx : i <= j

ParseOptionValue_missingIsNull(argv, flagName) ==
  LET prefixed == {i \in 1..Len(argv) : StartsWith(argv[i], Append(flagName, "="))}
      exact == {i \in 1..Len(argv) : argv[i] = flagName}
  IN  IF prefixed # {}
      THEN LET prefixedArg == argv[First(prefixed)]
           IN  <<SubSeq(prefixedArg, Len(flagName) + 2, Len(prefixedArg))>>
      ELSE IF exact = {} THEN <<>>
      ELSE LET index == First(exact) IN
           IF index + 1 > Len(argv) THEN <<>>
           ELSE IF argv[index + 1] = <<>> \/ StartsWith(argv[index + 1], DASHES)
                THEN <<>>
                ELSE <<argv[index + 1]>>

\* <<>> stands for null, <<v>> for the string v.
ParseOptionValue(argv, flagName) ==
  LET prefixed == {i \in 1..Len(argv) : StartsWith(argv[i], Append(flagName, "="))}
      exact == {i \in 1..Len(argv) : argv[i] = flagName}
  IN  IF prefixed # {}
      THEN LET prefixedArg == argv[First(prefixed)]
           IN  <<SubSeq(prefixedArg, Len(flagName) + 2, Len(prefixedArg))>>
      ELSE IF exact = {} THEN <<>>
      ELSE LET index == First(exact) IN
           IF index + 1 > Len(argv) THEN <<<<>>>>
           ELSE IF argv[index + 1] = <<>> \/ StartsWith(argv[index + 1], DASHES)
                THEN <<<<>>>>
                ELSE <<argv[index + 1]>>

\* args.find((arg) => arg.startsWith("--to-markdown=")), sliced, or null.
ParseToMarkdown(argv) ==
  LET found == {i \in 1..Len(argv) : StartsWith(argv[i], TO_MARKDOWN_PREFIX)}
  IN  IF found = {} THEN <<>>
      ELSE <<SubSeq(argv[First(found)], Len(TO_MARKDOWN_PREFIX) + 1,
                    Len(argv[First(found)]))>>

\* (arg) => !arg.startsWith("--")
IsPositional(arg) == ~StartsWith(arg, DASHES)

\* The working directory of the process: "/w".
Cwd == <<"/", "w">>

\* path.resolve of a path without "." or ".." segments inside.
Resolve(path) ==
  IF path = <<>> \/ path = <<".">> THEN Cwd
  ELSE IF Head(path) = "/" THEN path
  ELSE Cwd \o <<"/">> \o path

\* resolve(positionalArgs[0] ?? ".")
TargetPath(argv) ==
  LET positionalArgs == SelectSeq(argv, IsPositional)
  IN  Resolve(IF positionalArgs = <<>> THEN <<".">> ELSE positionalArgs[1])

\* if (cliOptions.toMarkdown): null and "" are falsy.
TruthyPath(opt) == opt # <<>> /\ opt[1] # <<>>

\* Arguments a command line is made of: --fail-on, --fail-on=,
\* --fail-on=info, --fail-on=bogus, critical, bogus, proj,
\* --to-markdown=r.md, --help and -v.
SampleArgs ==
  {<<"-", "-", "f", "a", "i", "l", "-", "o", "n">>,
   <<"-", "-", "f", "a", "i", "l", "-", "o", "n", "=">>,
   <<"-", "-", "f", "a", "i", "l", "-", "o", "n", "=", "i", "n", "f", "o">>,
   <<"-", "-", "f", "a", "i", "l", "-", "o", "n", "=", "b", "o", "g", "u", "s">>,
   <<"c", "r", "i", "t", "i", "c", "a", "l">>,
   <<"b", "o", "g", "u", "s">>,
   <<"p", "r", "o", "j">>,
   <<"-", "-", "t", "o", "-", "m", "a", "r", "k", "d", "o", "w", "n", "=", "r", ".", "m", "d">>,
   <<"-", "-", "h", "e", "l", "p">>,
   <<"-", "v">>}

Zero == [k \in 1..4 |-> 0]

Unit(n) == [k \in 1..4 |-> IF k = n THEN 1 ELSE 0]

\* What the collaborators return to a scan started from the command line:
\* nothing, a critical finding, an info dependency issue, a low or a
\* critical advisory.
CliValues ==
  {ValueOfPolicy(Zero, Zero, Zero), ValueOfPolicy(Unit(1), Zero, Zero),
   ValueOfPolicy(Zero, Unit(4), Zero), ValueOfPolicy(Zero, Zero, Unit(4)),
   ValueOfPolicy(Zero, Zero, Unit(1))}

\* The process was started with args.
InitCli ==
  /\ DiagIdle
  /\ PolicyIdle
  /\ VercelIdle
  /\ args \in SeqsUpTo(SampleArgs, MaxArgs)
  /\ cliPc = "start"
  /\ toMarkdown = <<>>
  /\ targetPath = <<>>
  /\ exitCode = <<>>
  /\ project = <<>>
  /\ proc = <<>>

\* process.exit(code)
Exit(code) == exitCode' = <<code>> /\ cliPc' = "exited"

\* The top-level code up to the look for package.json: help and version
\* flags, option parsing, validation of --fail-on.  (The version branch
\* reads the tool's own package.json, which ships with it.)
ParseArgs ==
  /\ cliPc = "start"
  /\ LET failOnRaw == ParseOptionValue(args, FAIL_ON_FLAG) IN
     IF \E flag \in HELP_FLAGS : Includes(args, flag)
     THEN Exit(0) /\ UNCHANGED <<failOn, toMarkdown, targetPath>>
     ELSE IF \E flag \in VERSION_FLAGS : Includes(args, flag)
     THEN Exit(0) /\ UNCHANGED <<failOn, toMarkdown, targetPath>>
     ELSE IF failOnRaw # <<>> /\ failOnRaw[1] = <<>>
     THEN Exit(1) /\ UNCHANGED <<failOn, toMarkdown, targetPath>>
     ELSE IF failOnRaw # <<>> /\ ~Includes(validSeverities, failOnRaw[1])
     THEN Exit(1) /\ UNCHANGED <<failOn, toMarkdown, targetPath>>
     ELSE /\ failOn' = IF failOnRaw = <<>> THEN NULL ELSE AsSeverity(failOnRaw[1])
          /\ toMarkdown' = ParseToMarkdown(args)
          /\ targetPath' = TargetPath(args)
          /\ cliPc' = "checkTarget"
          /\ UNCHANGED exitCode
  /\ UNCHANGED <<args, diagVars, policyDone, policyResult, vercelVars, proc, project, settled>>

\* if (!(await targetFile.exists())) process.exit(1)
TargetMissing ==
  /\ cliPc = "checkTarget"
  /\ Exit(1)
  /\ UNCHANGED <<args, toMarkdown, targetPath, diagVars, policyVars, vercelVars, proc, project, settled>>

\* diagnose(targetPath) is called and awaited.
StartScan ==
  /\ cliPc = "checkTarget"
  /\ cliPc' = "scanning"
  /\ diagnosePromise' = "pending"
  /\ UNCHANGED <<promise, value, scanResult, args, toMarkdown, targetPath, exitCode,
                 policyVars, vercelVars, proc, project, settled>>

\* The eight collaborators return (their interleavings are those of Spec).
FulfilAll ==
  /\ cliPc = "scanning"
  /\ diagnosePromise = "pending"
  /\ \A c \in CollaboratorSet : promise[c] = "pending"
  /\ value' \in CliValues
  /\ promise' = [c \in CollaboratorSet |-> "fulfilled"]
  /\ UNCHANGED <<diagnosePromise, scanResult, policyVars, vercelVars, cliVars, proc, project, settled>>

\* The first collaborator to throw while the scan is awaited.
RejectInScan(c) == cliPc = "scanning" /\ diagnosePromise = "pending" /\ Reject(c)

PolicyExit_anyPolicy ==
  LET failOnPolicy == EvaluateFailOnPolicy(scanResult[1], failOn) IN
  /\ policyResult' = failOnPolicy
  /\ policyDone' = TRUE
  /\ Exit(IF failOnPolicy # <<>> THEN 1 ELSE 0)

\* evaluateFailOnPolicy and the process.exit(1) behind it; without it the
\* program runs off its end and the process exits with 0.
PolicyExit ==
  LET failOnPolicy == EvaluateFailOnPolicy(scanResult[1], failOn) IN
  /\ policyResult' = failOnPolicy
  /\ policyDone' = TRUE
  /\ Exit(IF failOnPolicy # <<>> /\ failOnPolicy[1].shouldFail THEN 1 ELSE 0)

\* The continuation behind await diagnose: the dashboard, then the export
\* if one was asked for, else the exit policy.
ShowReport ==
  /\ cliPc = "scanning"
  /\ diagnosePromise = "fulfilled"
  /\ IF TruthyPath(toMarkdown)
     THEN cliPc' = "exporting" /\ UNCHANGED <<exitCode, policyDone, policyResult>>
     ELSE PolicyExit
  /\ UNCHANGED <<args, toMarkdown, targetPath, failOn, diagVars, vercelVars, proc, project, settled>>

\* await exportToMarkdown(...) returns.
ExportDone ==
  /\ cliPc = "exporting"
  /\ PolicyExit
  /\ UNCHANGED <<args, toMarkdown, targetPath, failOn, diagVars, vercelVars, proc, project, settled>>

\* await exportToMarkdown(...) rejects: catch (error) { process.exit(1) }
ExportThrows ==
  /\ cliPc = "exporting"
  /\ Exit(1)
  /\ UNCHANGED <<args, toMarkdown, targetPath, diagVars, policyVars, vercelVars, proc, project, settled>>

\* await diagnose(...) rejects: catch (error) { process.exit(1) }
ScanFailed ==
  /\ cliPc = "scanning"
  /\ diagnosePromise = "rejected"
  /\ Exit(1)
  /\ UNCHANGED <<args, toMarkdown, targetPath, diagVars, policyVars, vercelVars, proc, project, settled>>

NextCli ==
  \/ ParseArgs
  \/ TargetMissing
  \/ StartScan
  \/ FulfilAll
  \/ \E c \in CollaboratorSet : RejectInScan(c)
  \/ DiagnoseResolve
  \/ ShowReport
  \/ ExportDone
  \/ ExportThrows
  \/ ScanFailed

SpecCli == InitCli /\ [][NextCli]_vars

\* ------------------------------------------------------------------ the linter scan alone

\* A text is a sequence of pieces: noise without braces, a stray brace, or
\* one complete JSON document, given by the value it denotes.
TEXT == [kind |-> "text"]

JsonDoc(v) == [kind |-> "json", value |-> v]

\* JSON.parse(text): <<>> when it throws a SyntaxError, else <<the value>>.
JsonParse(text) ==
  IF Len(text) = 1 /\ text[1].kind = "json" THEN <<text[1].value>> ELSE <<>>

\* code.match(/\((.+)\)/)?.[1] ?? code, on the codes used here.
ExtractRuleName(code) ==
  CASE code = "react-hooks(rules-of-hooks)" -> "rules-of-hooks"
    [] code = "react-hooks(exhaustive-deps)" -> "exhaustive-deps"
    [] code = "react(no-children-prop)" -> "no-children-prop"
    [] code = "eslint(no-debugger)" -> "no-debugger"
    [] OTHER -> code

\* The heads of the three rule sets.
CRITICAL_RULES == {"rules-of-hooks", "jsx-key", "no-direct-mutation-state"}

PERFORMANCE_RULES == {"exhaustive-deps", "jsx-no-bind", "no-unstable-nested-components"}

BEST_PRACTICE_RULES == {"no-html-link-for-pages", "jsx-no-target-blank", "no-children-prop"}

CategorizeRule(code) ==
  LET rule == ExtractRuleName(code) IN
  IF rule \in CRITICAL_RULES THEN "critical"
  ELSE IF rule \in PERFORMANCE_RULES THEN "performance"
  ELSE IF rule \in BEST_PRACTICE_RULES THEN "best-practice"
  ELSE "info"

EMPTY_SCAN == [issues |-> <<>>, fileCount |-> 0]

\* runOxlintScan on a tool that behaves as p says: whether the call threw
\* (the promise rejects), and what it returned otherwise.  A value that is
\* no object with a diagnostics array makes output.diagnostics.map throw.
RunOxlintScan(p) ==
  IF ~p.spawned THEN [threw |-> TRUE, result |-> EMPTY_SCAN]
  ELSE LET parsed == JsonParse(p.stdout) IN
       IF parsed = <<>> THEN [threw |-> FALSE, result |-> EMPTY_SCAN]
       ELSE LET output == parsed[1] IN
            IF output.type # "object" \/ output.diagnostics = <<>>
            THEN [threw |-> TRUE, result |-> EMPTY_SCAN]
            ELSE LET diagnostics == output.diagnostics[1] IN
                 [threw |-> FALSE,
                  result |->
                    [issues |->
                       [i \in 1..Len(diagnostics) |->
                          Issue(CategorizeRule(diagnostics[i].code),
                                ExtractRuleName(diagnostics[i].code),
                                diagnostics[i].filename, diagnostics[i].line)],
                     fileCount |-> output.number_of_files]]

\* Diagnostics the linter may print.
SampleDiagnostics ==
  {[code |-> c, filename |-> "src/App.tsx", line |-> 1] :
     c \in {"react-hooks(rules-of-hooks)", "react-hooks(exhaustive-deps)",
            "react(no-children-prop)", "eslint(no-debugger)", "jsx-key"}}

\* What the linter may write to stdout: nothing, a message, the JSON null
\* or a number, an object without diagnostics, or a report.
OxlintStdouts ==
  {<<>>, <<TEXT>>, <<JsonDoc([type |-> "null"])>>, <<JsonDoc([type |-> "number"])>>,
   <<TEXT, JsonDoc([type |-> "null"])>>}
  \cup {<<JsonDoc([type |-> "object", diagnostics |-> <<>>, number_of_files |-> n])>> :
          n \in 0..MaxFiles}
  \cup {<<JsonDoc([type |-> "object", diagnostics |-> <<d>>, number_of_files |-> n])>> :
          d \in SeqsUpTo(SampleDiagnostics, MaxDiagnostics), n \in 0..MaxFiles}

\* runOxlintScan has been called; the binary is missing or it runs.
InitOxlint ==
  /\ DiagIdle
  /\ PolicyIdle
  /\ VercelIdle
  /\ args = <<>> /\ cliPc = "idle" /\ toMarkdown = <<>> /\ targetPath = <<>>
  /\ exitCode = <<>>
  /\ project = <<>>
  /\ \E out \in OxlintStdouts, err \in {"", "No files found"}, sp \in BOOLEAN :
       proc = <<[spawned |-> sp, stdout |-> out, stderr |-> err]>>

\* The promise runOxlintScan returned settles.
OxlintSettles ==
  /\ proc # <<>>
  /\ promise["oxlint"] = "pending"
  /\ LET r == RunOxlintScan(proc[1]) IN
     /\ promise' = [promise EXCEPT !["oxlint"] = IF r.threw THEN "rejected" ELSE "fulfilled"]
     /\ value' = [value EXCEPT !["oxlint"] = r.result]
  /\ UNCHANGED <<diagnosePromise, scanResult, policyVars, vercelVars, cliVars, proc, project, settled>>

NextOxlint == OxlintSettles

SpecOxlint == InitOxlint /\ [][NextOxlint]_vars

\* ------------------------------------------------------------------ the security audit alone

UPPER == <<"A", "B", "C", "D", "E", "F", "G", "H", "I", "J", "K", "L", "M", "N", "O", "P", "Q", "R", "S", "T", "U", "V", "W", "X", "Y", "Z">>

LOWER == <<"a", "b", "c", "d", "e", "f", "g", "h", "i", "j", "k", "l", "m", "n", "o", "p", "q", "r", "s", "t", "u", "v", "w", "x", "y", "z">>

\* raw.toLowerCase(), character by character.
ToLowerCase(chars) ==
  [i \in 1..Len(chars) |->
     IF \E k \in 1..Len(UPPER) : UPPER[k] = chars[i]
     THEN LOWER[CHOOSE k \in 1..Len(UPPER) : UPPER[k] = chars[i]]
     ELSE chars[i]]

NormaliseSeverity_caseSensitive(raw) ==
  IF raw = <<"c", "r", "i", "t", "i", "c", "a", "l">> THEN "critical"
  ELSE IF raw = <<"h", "i", "g", "h">> THEN "high"
  ELSE IF raw = <<"m", "o", "d", "e", "r", "a", "t", "e">> THEN "moderate"
  ELSE "low"

NormaliseSeverity(raw) ==
  LET lower == ToLowerCase(raw) IN
  IF lower = <<"c", "r", "i", "t", "i", "c", "a", "l">> THEN "critical"
  ELSE IF lower = <<"h", "i", "g", "h">> THEN "high"
  ELSE IF lower = <<"m", "o", "d", "e", "r", "a", "t", "e">> THEN "moderate"
  ELSE "low"

\* A stray brace in the text.
LBRACE == [kind |-> "{"]

RBRACE == [kind |-> "}"]

\* A piece of text that holds the character: a JSON object starts with
\* "{" and ends with "}".
HoldsBrace(piece, brace) ==
  piece.kind = brace \/ (piece.kind = "json" /\ piece.value.type = "object")

\* <<>> stands for null, <<v>> for the object v.
ParseBunAuditOutput(outputText) ==
  LET opening == {i \in 1..Len(outputText) : HoldsBrace(outputText[i], "{")}
      closing == {i \in 1..Len(outputText) : HoldsBrace(outputText[i], "}")}
  IN  IF opening = {} \/ closing = {} THEN <<>>
      ELSE LET firstBrace == First(opening)
               lastBrace == CHOOSE i \in closing : \A j \in closing : j <= i
           IN  IF lastBrace < firstBrace THEN <<>>
               ELSE LET parsed == JsonParse(SubSeq(outputText, firstBrace, lastBrace))
                    IN  IF parsed = <<>> THEN <<>>
                        ELSE IF parsed[1].type # "object" THEN <<>>
                        ELSE parsed

\* The advisories of Object.entries(raw), those of non-array values left out.
RECURSIVE Advisories(_)
Advisories(entries) ==
  IF entries = <<>> THEN <<>>
  ELSE (IF Head(entries).advisories = <<>> THEN <<>> ELSE Head(entries).advisories[1])
         \o Advisories(Tail(entries))

\* const severityOrder = { critical: 0, high: 1, moderate: 2, low: 3 }
VulnSeverityOrder ==
  ("critical" :> 0) @@ ("high" :> 1) @@ ("moderate" :> 2) @@ ("low" :> 3)

RECURSIVE InsertVuln_dropsLow(_, _)
InsertVuln_dropsLow(sorted, x) ==
  IF x.severity = "low" THEN sorted
  ELSE IF sorted = <<>> THEN <<x>>
  ELSE IF VulnSeverityOrder[Head(sorted).severity] - VulnSeverityOrder[x.severity] > 0
       THEN <<x>> \o sorted
       ELSE <<Head(sorted)>> \o InsertVuln_dropsLow(Tail(sorted), x)

\* x goes before the first element that compares greater than it.
RECURSIVE InsertVuln(_, _)
InsertVuln(sorted, x) ==
  IF sorted = <<>> THEN <<x>>
  ELSE IF VulnSeverityOrder[Head(sorted).severity] - VulnSeverityOrder[x.severity] > 0
       THEN <<x>> \o sorted
       ELSE <<Head(sorted)>> \o InsertVuln(Tail(sorted), x)

\* vulnerabilities.sort(...), stable.
RECURSIVE SortVulns(_, _)
SortVulns(sorted, rest) ==
  IF rest = <<>> THEN sorted
  ELSE SortVulns(InsertVuln(sorted, Head(rest)), Tail(rest))

RunSecurityAudit_noCatch(p) ==
  IF ~p.spawned THEN [threw |-> TRUE, result |-> EmptyAudit]
  ELSE [threw |-> FALSE, result |-> EmptyAudit]

\* runSecurityAudit on a tool that behaves as p says.  A null advisory or
\* a severity that is no string throws a TypeError inside the try block,
\* as does a tool that cannot be spawned: catch { return empty }.
RunSecurityAudit(p) ==
  IF ~p.spawned THEN [threw |-> FALSE, result |-> EmptyAudit]
  ELSE LET raw == ParseBunAuditOutput(p.stdout) IN
       IF raw = <<>> THEN [threw |-> FALSE, result |-> EmptyAudit]
       ELSE LET advisories == Advisories(raw[1].entries) IN
            IF \E i \in 1..Len(advisories) :
                 \/ advisories[i].type = "null"
                 \/ advisories[i].severity.type = "number"
            THEN [threw |-> FALSE, result |-> EmptyAudit]
            ELSE LET vulnerabilities ==
                       [i \in 1..Len(advisories) |->
                          Vuln(advisories[i].id,
                               IF advisories[i].severity.type = "absent" THEN "low"
                               ELSE NormaliseSeverity(advisories[i].severity.chars))]
                 IN  [threw |-> FALSE,
                      result |-> [vulnerabilities |-> SortVulns(<<>>, vulnerabilities),
                                  summary |-> AuditResult(vulnerabilities).summary]]

\* Raw severities of the registry: critical, High, MODERATE, urgent and the
\* empty string.
RawSeverities ==
  {<<"c", "r", "i", "t", "i", "c", "a", "l">>,
   <<"H", "i", "g", "h">>,
   <<"M", "O", "D", "E", "R", "A", "T", "E">>,
   <<"u", "r", "g", "e", "n", "t">>,
   <<>>}

\* Elements of an advisory array: null, or an advisory whose severity is
\* absent, a number or a string.
SampleAdvisories ==
  {[type |-> "null"]}
  \cup {[type |-> "object", severity |-> sv] :
          sv \in {[type |-> "absent"], [type |-> "number"]}
                   \cup {[type |-> "string", chars |-> r] : r \in RawSeverities}}

\* The advisories numbered by their place in the document.
WithIds(list) ==
  [i \in 1..Len(list) |->
     IF list[i].type = "null" THEN list[i]
     ELSE [type |-> "object", id |-> i, severity |-> list[i].severity]]

\* The JSON objects the audit may print for a list of advisories: all under
\* one package, split over two, or behind a value that is no array.
AuditDocs(list) ==
  {JsonDoc([type |-> "object", entries |-> e]) :
     e \in {<<[pkg |-> "a", advisories |-> <<list>>]>>,
            <<[pkg |-> "a", advisories |-> <<SubSeq(list, 1, Min(1, Len(list)))>>],
              [pkg |-> "b", advisories |-> <<SubSeq(list, 2, Len(list))>>]>>,
            <<[pkg |-> "a", advisories |-> <<>>],
              [pkg |-> "b", advisories |-> <<list>>]>>}}

\* What the audit may write to stdout without printing an object: nothing,
\* a message, braces that frame no object, the JSON null.
AuditStdouts ==
  {<<>>, <<TEXT>>, <<LBRACE>>, <<RBRACE, LBRACE>>, <<LBRACE, TEXT, RBRACE>>,
   <<JsonDoc([type |-> "null"])>>}

\* What the tool bun audit is seen to do.
AuditProc(sp, out) == proc = <<[spawned |-> sp, stdout |-> out, stderr |-> ""]>>

\* runSecurityAudit has been called; bun cannot be spawned, or it prints
\* no object, an object, or (a short one) an object with text or a brace
\* around it.
InitAudit ==
  /\ DiagIdle
  /\ PolicyIdle
  /\ VercelIdle
  /\ args = <<>> /\ cliPc = "idle" /\ toMarkdown = <<>> /\ targetPath = <<>>
  /\ exitCode = <<>>
  /\ project = <<>>
  /\ \/ AuditProc(FALSE, <<>>)
     \/ \E out \in AuditStdouts : AuditProc(TRUE, out)
     \/ \E list \in SeqsUpTo(SampleAdvisories, MaxAdvisories) :
          \E doc \in AuditDocs(WithIds(list)) : AuditProc(TRUE, <<doc>>)
     \/ \E list \in SeqsUpTo(SampleAdvisories, MaxFramed) :
          \E doc \in AuditDocs(WithIds(list)) :
            \E out \in {<<TEXT, doc>>, <<LBRACE, doc>>, <<doc, TEXT>>} : AuditProc(TRUE, out)

\* The promise runSecurityAudit returned settles.
AuditSettles ==
  /\ proc # <<>>
  /\ promise["security"] = "pending"
  /\ LET r == RunSecurityAudit(proc[1]) IN
     /\ promise' = [promise EXCEPT !["security"] = IF r.threw THEN "rejected" ELSE "fulfilled"]
     /\ value' = [value EXCEPT !["security"] = r.result]
  /\ UNCHANGED <<diagnosePromise, scanResult, policyVars, vercelVars, cliVars, proc, project, settled>>

NextAudit == AuditSettles

SpecAudit == InitAudit /\ [][NextAudit]_vars

\* ------------------------------------------------------------------ the dependency check alone

\* Manifests and source trees looked at: declared packages per section,
\* script commands, source files.
MaxDeclared == 2
MaxDevDeclared == 1
MaxScripts == 1
MaxSourceFiles == 2

\* A few of HEAVY_DEV_ONLY_PACKAGES.
HEAVY_DEV_ONLY_PACKAGES == {<<"j", "e", "s", "t">>, <<"m", "s", "w">>}

\* SKIP_DIR_PREFIXES.some((prefix) => filePath.startsWith(prefix))
SKIP_DIR_PREFIXES ==
  SKIP_PREFIXES \cup {<<"c", "o", "v", "e", "r", "a", "g", "e">>, <<".", "t", "u", "r", "b", "o">>, <<"o", "u", "t">>}

\* A few of the names the runtime lists as built in, each with and
\* without the node: prefix.
BUILTIN_MODULES == {<<"f", "s">>, <<"n", "o", "d", "e", ":", "f", "s">>, <<"u", "r", "l">>, <<"n", "o", "d", "e", ":", "u", "r", "l">>}

\* s.indexOf(sub, from), counted from 1; 0 when there is none.
IndexOf(s, sub, from) ==
  LET hits == {i \in from..(Len(s) - Len(sub) + 1) : SubSeq(s, i, i + Len(sub) - 1) = sub}
  IN IF hits = {} THEN 0 ELSE CHOOSE i \in hits : \A j \in hits : i <= j

\* specifier.split("/"): the parts, in order.
RECURSIVE Split(_)
Split(s) ==
  LET k == IndexOf(s, <<"/">>, 1)
  IN IF k = 0 THEN <<s>> ELSE <<SubSeq(s, 1, k - 1)>> \o Split(SubSeq(s, k + 1, Len(s)))

\* normalizePackageName: <<>> for null, or <<the root package name>>.
NormalizePackageName(specifier) ==
  IF \/ specifier = <<>>
     \/ \E prefix \in {<<".">>, <<"/">>, <<"#">>, <<"@", "/">>, <<"~", "/">>} : StartsWith(specifier, prefix)
     \/ IndexOf(specifier, <<":", "/", "/">>, 1) # 0
  THEN <<>>
  ELSE IF specifier \in BUILTIN_MODULES THEN <<>>
  ELSE IF Head(specifier) = "@"
  THEN LET parts == Split(specifier)
       IN IF Len(parts) >= 2 THEN <<parts[1] \o <<"/">> \o parts[2]>> ELSE <<>>
  ELSE IF Split(specifier)[1] = <<>> THEN <<>> ELSE <<Split(specifier)[1]>>

\* extractUsedPackages; a file's content is taken as the specifiers that
\* SPECIFIER_PATTERNS capture in it.
ExtractUsedPackages(content) ==
  {NormalizePackageName(s)[1] : s \in {t \in content : NormalizePackageName(t) # <<>>}}

DIGITS == <<"0", "1", "2", "3", "4", "5", "6", "7", "8", "9">>

\* isPackageTokenBoundary; char is <<>> for undefined, or <<a character>>.
IsPackageTokenBoundary(char) ==
  \/ char = <<>>
  \/ /\ \A k \in 1..Len(LOWER) : LOWER[k] # char[1] /\ UPPER[k] # char[1]
     /\ \A k \in 1..Len(DIGITS) : DIGITS[k] # char[1]
     /\ char[1] \notin {"@", "/", "_", "-"}

\* scriptMentionsPackage, its loop from fromIndex on (counted from 1).
RECURSIVE ScriptMentionsPackage(_, _, _)
ScriptMentionsPackage(command, pkgName, fromIndex) ==
  IF command = <<>> \/ pkgName = <<>> \/ fromIndex > Len(command) THEN FALSE
  ELSE LET index == IndexOf(command, pkgName, fromIndex) IN
       IF index = 0 THEN FALSE
       ELSE LET prev == IF index > 1 THEN <<command[index - 1]>> ELSE <<>>
                next == IF index + Len(pkgName) <= Len(command)
                        THEN <<command[index + Len(pkgName)]>> ELSE <<>>
            IN IF IsPackageTokenBoundary(prev) /\ IsPackageTokenBoundary(next) THEN TRUE
               ELSE ScriptMentionsPackage(command, pkgName, index + Len(pkgName))

\* Object.keys of a section of the manifest.
Keys(section) == {section[i].name : i \in 1..Len(section)}

\* findUsedDeclaredPackages
FindUsedDeclaredPackages(p) ==
  LET declaredPackages == Keys(p.dependencies) \cup Keys(p.devDependencies)
      inScripts == {d \in declaredPackages :
                      \E k \in 1..Len(p.scripts) : ScriptMentionsPackage(p.scripts[k], d, 1)}
      scanned == {k \in 1..Len(p.files) :
                    ~\E prefix \in SKIP_DIR_PREFIXES : StartsWith(p.files[k].path, prefix)}
      inFiles == UNION {ExtractUsedPackages(p.files[k].content) \cap declaredPackages : k \in scanned}
  IN inScripts \cup inFiles

IsRangeChar(c) == c \in {"^", "~", ">", "=", "<"}

IsVersionChar(c) == ~IsRangeChar(c)

\* version.replace(/[\^~>=<]*/g, "")
StripRange(version) == SelectSeq(version, IsVersionChar)

\* deps[name]: <<>> for undefined, or <<the version range>>.
VersionOf(section, name) ==
  IF name \in Keys(section)
  THEN <<section[CHOOSE i \in 1..Len(section) : section[i].name = name].version>>
  ELSE <<>>

\* A dependency issue that names a package: the message holds the package
\* and the manifest section.
PackageIssue(type, sev, name, section) ==
  [type |-> type, severity |-> sev, message |-> <<name, section>>]

\* The issues the loop over Object.keys(deps) pushes, from entry k on.
RECURSIVE DepsLoop(_, _, _)
DepsLoop(deps, usedPackages, k) ==
  IF k > Len(deps) THEN <<>>
  ELSE (IF deps[k].name \in HEAVY_DEV_ONLY_PACKAGES
        THEN <<PackageIssue("dev-in-prod", "performance", deps[k].name, "dependencies")>>
        ELSE <<>>)
       \o (IF deps[k].name \notin usedPackages
           THEN <<PackageIssue("unused", "performance", deps[k].name, "dependencies")>>
           ELSE <<>>)
       \o DepsLoop(deps, usedPackages, k + 1)

\* The issues the loop over Object.keys(devDeps) pushes, from entry k on.
RECURSIVE DevDepsLoop(_, _, _)
DevDepsLoop(devDeps, usedPackages, k) ==
  IF k > Len(devDeps) THEN <<>>
  ELSE (IF devDeps[k].name \notin usedPackages
        THEN <<PackageIssue("unused", "best-practice", devDeps[k].name, "devDependencies")>>
        ELSE <<>>)
       \o DevDepsLoop(devDeps, usedPackages, k + 1)

\* checkDependencies on a project whose package.json exists and parses.
\* p.pmLs is <<>> when bun pm ls cannot be run, or <<the number of lines
\* of its output that hold react@ and a digit>>.
CheckDependencies(p) ==
  LET deps == p.dependencies
      usedPackages == FindUsedDeclaredPackages(p)
      react == VersionOf(deps, <<"r", "e", "a", "c", "t">>)
      reactDom == VersionOf(deps, <<"r", "e", "a", "c", "t", "-", "d", "o", "m">>)
  IN (IF /\ react # <<>> /\ react[1] # <<>>
         /\ reactDom # <<>> /\ reactDom[1] # <<>>
         /\ StripRange(react[1]) # StripRange(reactDom[1])
      THEN <<DepIssue("version-mismatch", "critical")>> ELSE <<>>)
     \o DepsLoop(deps, usedPackages, 1)
     \o DevDepsLoop(p.devDependencies, usedPackages, 1)
     \o (IF p.pmLs # <<>> /\ p.pmLs[1] > 1
         THEN <<DepIssue("duplicate", "critical")>> ELSE <<>>)

Declared(name, version) == [name |-> name, version |-> version]

\* Declared packages whose use is looked at: a plain one, a scoped one
\* and one that shares its name with a built-in module.
UsageDeclared ==
  {Declared(<<"a", "b">>, <<"1">>), Declared(<<"@", "s", "/", "p">>, <<"1">>), Declared(<<"u", "r", "l">>, <<"1">>)}

\* Declared packages a script may name; a.a holds a boundary character.
ScriptDeclared ==
  {Declared(<<"a", "b">>, <<"1">>), Declared(<<"@", "s", "/", "p">>, <<"1">>), Declared(<<"a", ".", "a">>, <<"1">>)}

\* Declared packages the health checks look at.
HealthDeclared ==
  {Declared(<<"r", "e", "a", "c", "t">>, <<"^", "1", "8">>), Declared(<<"r", "e", "a", "c", "t">>, <<"1", "7">>), Declared(<<"r", "e", "a", "c", "t", "-", "d", "o", "m">>, <<"1", "8">>),
   Declared(<<"j", "e", "s", "t">>, <<"1">>), Declared(<<"a", "b">>, <<"1">>)}

SourceFile(path, content) == [path |-> path, content |-> content]

\* Source files: one import each, of a package, of a sub-path, of a longer
\* name, of a relative path, of a built-in; and a file under dist.
SampleSources ==
  {SourceFile(<<"a", ".", "t", "s">>, {s}) :
     s \in {<<"a", "b", "/", "x">>, <<"a", "b", "c">>, <<"@", "s", "/", "p", "/", "u">>, <<"@", "s">>, <<".", "/", "a", "b">>, <<"u", "r", "l">>, <<"n", "o", "d", "e", ":", "u", "r", "l">>}}
  \cup {SourceFile(<<"d", "i", "s", "t", "/", "a", ".", "j", "s">>, {<<"a", "b", "/", "x">>})}

\* Script commands: a package as a whole token, inside a longer token,
\* and behind a longer token that ends in its name.
SampleScripts ==
  {<<"a", "b", " ", "x">>, <<"a", "b", "-", "x">>, <<"n", "p", "x", " ", "@", "s", "/", "p">>, <<"@", "s", "/", "p", "q">>, <<"a", ".", "a">>, <<"x", "a", ".", "a", ".", "a">>}

DistinctNames(section) ==
  \A i, j \in 1..Len(section) : i # j => section[i].name # section[j].name

Manifest(deps, devDeps, scripts, files, pmLs) ==
  project = <<[dependencies |-> deps, devDependencies |-> devDeps,
               scripts |-> scripts, files |-> files, pmLs |-> pmLs]>>

\* checkDependencies has been called on a project.
InitDeps ==
  /\ DiagIdle
  /\ PolicyIdle
  /\ VercelIdle
  /\ args = <<>> /\ cliPc = "idle" /\ toMarkdown = <<>> /\ targetPath = <<>>
  /\ exitCode = <<>> /\ proc = <<>>
  /\ \/ \E deps \in SeqsUpTo(UsageDeclared, MaxDeclared) :
          \E devDeps \in SeqsUpTo(UsageDeclared, MaxDevDeclared) :
            \E files \in SeqsUpTo(SampleSources, MaxSourceFiles) :
              /\ DistinctNames(deps) /\ DistinctNames(devDeps)
              /\ Manifest(deps, devDeps, <<>>, files, <<1>>)
     \/ \E deps \in SeqsUpTo(ScriptDeclared, MaxDeclared) :
          \E scripts \in SeqsUpTo(SampleScripts, MaxScripts) :
            \E files \in SeqsUpTo({SourceFile(<<"a", ".", "t", "s">>, {<<"a", "b", "/", "x">>})}, 1) :
              /\ DistinctNames(deps)
              /\ Manifest(deps, <<>>, scripts, files, <<1>>)
     \/ \E deps \in SeqsUpTo(HealthDeclared, MaxDeclared) :
          \E pmLs \in {<<>>, <<0>>, <<1>>, <<2>>} :
            /\ DistinctNames(deps)
            /\ Manifest(deps, <<>>, <<>>, <<SourceFile(<<"a", ".", "t", "s">>, {<<"r", "e", "a", "c", "t">>, <<"r", "e", "a", "c", "t", "-", "d", "o", "m", "/", "c", "l", "i", "e", "n", "t">>})>>, pmLs)

\* The promise checkDependencies returned resolves.
DepsSettles ==
  /\ project # <<>>
  /\ promise["deps"] = "pending"
  /\ promise' = [promise EXCEPT !["deps"] = "fulfilled"]
  /\ value' = [value EXCEPT !["deps"] = CheckDependencies(project[1])]
  /\ UNCHANGED <<diagnosePromise, scanResult, policyVars, vercelVars, cliVars, proc, project, settled>>

NextDeps == DepsSettles

SpecDeps == InitDeps /\ [][NextDeps]_vars

\* ------------------------------------------------------------------ single rules on one file

\* Lines of the file a rule is run on.
MaxLines == 3

\* A finding of a rule with the tokens its message is built from.
RuleIssue(sev, rule, file, line, message) ==
  [severity |-> sev, rule |-> rule, file |-> file, line |-> line, message |-> message]

\* \s and \w, for the characters that occur.
IsSpace(c) == c \in {" ", "\t"}

IsWordChar(c) ==
  \/ \E k \in 1..Len(LOWER) : LOWER[k] = c \/ UPPER[k] = c
  \/ \E k \in 1..Len(DIGITS) : DIGITS[k] = c
  \/ c = "_"

\* The first position from p on that holds no whitespace (no word
\* character); Len(s) + 1 when there is none.
SpaceEnd(s, p) ==
  CHOOSE k \in p..(Len(s) + 1) :
    /\ k = Len(s) + 1 \/ ~IsSpace(s[k])
    /\ \A j \in p..(k - 1) : IsSpace(s[j])

WordEnd(s, p) ==
  CHOOSE k \in p..(Len(s) + 1) :
    /\ k = Len(s) + 1 \/ ~IsWordChar(s[k])
    /\ \A j \in p..(k - 1) : IsWordChar(s[j])

\* line.trim()
Trim(s) ==
  LET from == SpaceEnd(s, 1)
      ends == {k \in from..Len(s) : ~IsSpace(s[k])}
  IN IF from > Len(s) THEN <<>>
     ELSE SubSeq(s, from, CHOOSE k \in ends : \A j \in ends : j <= k)

\* s holds sub at position p.
HasAt(s, p, sub) ==
  p + Len(sub) - 1 <= Len(s) /\ SubSeq(s, p, p + Len(sub) - 1) = sub

\* line.match(/^(?:const|let|var)\s+(\w+)\s*=\s*await\s+/): <<>> for null,
\* or <<the name captured and the position behind the match>>.
MatchAwaitAssign(line) ==
  LET kws == {kw \in {<<"c", "o", "n", "s", "t">>, <<"l", "e", "t">>, <<"v", "a", "r">>} : HasAt(line, 1, kw)} IN
  IF kws = {} THEN <<>>
  ELSE LET kw == CHOOSE k \in kws : TRUE
           n1 == Len(kw) + 1
           n2 == SpaceEnd(line, n1)
           n3 == WordEnd(line, n2)
           n4 == SpaceEnd(line, n3)
           n5 == SpaceEnd(line, n4 + 1)
           n6 == SpaceEnd(line, n5 + 5)
       IN IF /\ n2 > n1
             /\ n3 > n2
             /\ HasAt(line, n4, <<"=">>)
             /\ HasAt(line, n5, <<"a", "w", "a", "i", "t">>)
             /\ n6 > n5 + 5
          THEN <<[name |-> SubSeq(line, n2, n3 - 1), end |-> n6]>>
          ELSE <<>>

\* nextLine.includes(firstVar)
IncludesText(s, sub) == IndexOf(s, sub, 1) # 0

\* asyncParallel._issues, its loop from line i on (counted from 1).
RECURSIVE AsyncParallel(_, _, _)
AsyncParallel(filePath, lines, i) ==
  IF i > Len(lines) - 1 THEN <<>>
  ELSE LET line == Trim(lines[i])
           nextLine == Trim(lines[i + 1])
           matchCurrent == MatchAwaitAssign(line)
           matchNext == MatchAwaitAssign(nextLine)
       IN (IF /\ matchCurrent # <<>> /\ matchNext # <<>>
              /\ ~IncludesText(nextLine, matchCurrent[1].name)
           THEN <<RuleIssue("critical", "async-parallel", filePath, i,
                            <<matchCurrent[1].name, matchNext[1].name, "Promise.all">>)>>
           ELSE <<>>)
          \o AsyncParallel(filePath, lines, i + 1)

\* Lines with awaits: independent ones, one that uses an earlier name,
\* an indented one and a statement that is no await.
AwaitLines ==
  {<<"c", "o", "n", "s", "t", " ", "a", " ", "=", " ", "a", "w", "a", "i", "t", " ", "f", "(", ")", ";">>, <<"c", "o", "n", "s", "t", " ", "b", " ", "=", " ", "a", "w", "a", "i", "t", " ", "g", "(", ")", ";">>,
   <<"c", "o", "n", "s", "t", " ", "u", " ", "=", " ", "a", "w", "a", "i", "t", " ", "f", "(", ")", ";">>, <<"c", "o", "n", "s", "t", " ", "v", " ", "=", " ", "a", "w", "a", "i", "t", " ", "g", "(", ")", ";">>, <<"c", "o", "n", "s", "t", " ", "v", " ", "=", " ", "a", "w", "a", "i", "t", " ", "g", "(", "u", ")", ";">>,
   <<" ", " ", "l", "e", "t", " ", "w", " ", "=", " ", "a", "w", "a", "i", "t", " ", " ", "h", "(", ")">>, <<"l", "o", "g", "(", ")", ";">>, <<"c", "o", "n", "s", "t", "a", "n", "t", " ", "=", " ", "a", "w", "a", "i", "t", " ", "x">>}

\* The sequences of 1 to n elements of S: what split("\n") can yield.
Contents(S, n) == UNION {[1..k -> S] : k \in 1..n}

\* Nothing is looked at but one file.
OneFile(path, lines) ==
  /\ DiagIdle
  /\ PolicyIdle
  /\ VercelIdle
  /\ args = <<>> /\ cliPc = "idle" /\ toMarkdown = <<>> /\ targetPath = <<>>
  /\ exitCode = <<>> /\ proc = <<>>
  /\ project = <<[path |-> path, lines |-> lines]>>

\* rule.check(filePath, content) returned these findings.
Checked(findings) ==
  /\ project # <<>>
  /\ vercelPc = "idle"
  /\ vercelIssues' = findings
  /\ vercelPc' = "returned"
  /\ UNCHANGED <<scanFiles, fileIdx, checkLog, ruleBase, diagVars, policyVars, cliVars, proc, project, settled>>

InitAsyncParallel == \E lines \in Contents(AwaitLines, MaxLines) : OneFile(<<"a", ".", "t", "s">>, lines)

\* asyncParallel.check
AsyncParallelChecks == Checked(AsyncParallel(project[1].path, project[1].lines, 1))

SpecAsyncParallel == InitAsyncParallel /\ [][AsyncParallelChecks]_vars

\* ---- composition-boolean-props

\* Lines of a file with props types.
MaxPropLines == 4

EndsWith(path, suffix) ==
  Len(path) >= Len(suffix) /\ SubSeq(path, Len(path) - Len(suffix) + 1, Len(path)) = suffix

\* A line is taken as its tokens: keywords, names and braces as words, a
\* field `name: type` or `name?: type` as one token.
Word(text) == [text |-> text, type |-> <<>>]

Field(name, type) == [text |-> name, type |-> <<type>>]

IsUpper(c) == \E k \in 1..Len(UPPER) : UPPER[k] = c

\* propsOpenRegex.test(line): interface or type, a name that holds Props or
\* props, then `{` (behind an extends clause or not) or `=`.
PropsOpen(line) ==
  \E p \in 1..(Len(line) - 2) :
    /\ line[p] \in {Word(<<"i", "n", "t", "e", "r", "f", "a", "c", "e">>), Word(<<"t", "y", "p", "e">>)}
    /\ line[p + 1].type = <<>>
    /\ \A k \in 1..Len(line[p + 1].text) : IsWordChar(line[p + 1].text[k])
    /\ IncludesText(line[p + 1].text, <<"P", "r", "o", "p", "s">>) \/ IncludesText(line[p + 1].text, <<"p", "r", "o", "p", "s">>)
    /\ \/ line[p + 2] \in {Word(<<"{">>), Word(<<"=">>)}
       \/ /\ line[p + 2] = Word(<<"e", "x", "t", "e", "n", "d", "s">>)
          /\ \E q \in (p + 3)..Len(line) : line[q] = Word(<<"{">>)

\* (l.match(/\{/g) ?? []).length and the same for `}`
CountWord(line, text) == Cardinality({k \in 1..Len(line) : line[k] = Word(text)})

\* How far the inner loop collects: the last line j it pushes, from line j
\* on with the depth reached before it.
RECURSIVE BlockEnd(_, _, _, _)
BlockEnd(lines, i, j, depth) ==
  LET d == depth + CountWord(lines[j], <<"{">>) - CountWord(lines[j], <<"}">>) IN
  IF j >= Min(i + 79, Len(lines)) \/ (j > i /\ d <= 0) THEN j
  ELSE BlockEnd(lines, i, j + 1, d)

BOOL_PREFIXES == {<<"i", "s">>, <<"h", "a", "s">>, <<"s", "h", "o", "w">>, <<"h", "i", "d", "e">>, <<"e", "n", "a", "b", "l", "e">>, <<"d", "i", "s", "a", "b", "l", "e">>, <<"w", "i", "t", "h">>}

\* boolPropRegex matches the token: a prefix, an upper-case letter, and the
\* type boolean.
IsBoolProp(token) ==
  /\ token.type = <<<<"b", "o", "o", "l", "e", "a", "n">>>>
  /\ \E prefix \in BOOL_PREFIXES :
       /\ StartsWith(token.text, prefix)
       /\ Len(token.text) > Len(prefix)
       /\ IsUpper(token.text[Len(prefix) + 1])

\* [...block.matchAll(boolPropRegex)] mapped to the names, over lines
\* from..to in order.
RECURSIVE BoolProps(_, _, _)
BoolProps(lines, from, to) ==
  IF from > to THEN <<>>
  ELSE LET fields == SelectSeq(lines[from], IsBoolProp)
       IN [k \in 1..Len(fields) |-> fields[k].text] \o BoolProps(lines, from + 1, to)

\* compositionBooleanProps.check, its outer loop from line i on.
RECURSIVE CompositionBooleanProps(_, _, _)
CompositionBooleanProps(filePath, lines, i) ==
  IF ~EndsWith(filePath, <<".", "t", "s", "x">>) /\ ~EndsWith(filePath, <<".", "j", "s", "x">>) THEN <<>>
  ELSE IF i > Len(lines) THEN <<>>
  ELSE IF ~PropsOpen(lines[i]) THEN CompositionBooleanProps(filePath, lines, i + 1)
  ELSE LET boolProps == BoolProps(lines, i, BlockEnd(lines, i, i, 0))
       IN (IF Len(boolProps) >= 3
           THEN <<RuleIssue("best-practice", "composition-boolean-props", filePath, i,
                            <<Len(boolProps), boolProps>>)>>
           ELSE <<>>)
          \o CompositionBooleanProps(filePath, lines, i + 1)

\* Lines of props types: openings with and without Props in the name,
\* fields, a closing brace, and a block written on one line.
PropLines ==
  {<<Word(<<"i", "n", "t", "e", "r", "f", "a", "c", "e">>), Word(<<"F", "o", "o", "P", "r", "o", "p", "s">>), Word(<<"{">>)>>,
   <<Word(<<"i", "n", "t", "e", "r", "f", "a", "c", "e">>), Word(<<"F", "o", "o">>), Word(<<"{">>)>>,
   <<Field(<<"i", "s", "L", "o", "a", "d", "i", "n", "g">>, <<"b", "o", "o", "l", "e", "a", "n">>), Field(<<"i", "s", "D", "i", "s", "a", "b", "l", "e", "d">>, <<"b", "o", "o", "l", "e", "a", "n">>)>>,
   <<Field(<<"h", "a", "s", "E", "r", "r", "o", "r">>, <<"b", "o", "o", "l", "e", "a", "n">>)>>,
   <<Field(<<"l", "a", "b", "e", "l">>, <<"s", "t", "r", "i", "n", "g">>), Field(<<"i", "s", "l", "a", "n", "d">>, <<"b", "o", "o", "l", "e", "a", "n">>)>>,
   <<Word(<<"}">>)>>,
   <<Word(<<"t", "y", "p", "e">>), Word(<<"A", "P", "r", "o", "p", "s">>), Word(<<"=">>), Word(<<"{">>),
     Field(<<"i", "s", "O", "p", "e", "n">>, <<"b", "o", "o", "l", "e", "a", "n">>), Field(<<"h", "a", "s", "I", "c", "o", "n">>, <<"b", "o", "o", "l", "e", "a", "n">>), Word(<<"}">>)>>}

InitBooleanProps ==
  \E lines \in Contents(PropLines, MaxPropLines) :
    \E path \in {<<"a", ".", "t", "s", "x">>, <<"a", ".", "j", "s", "x">>, <<"a", ".", "t", "s">>} : OneFile(path, lines)

\* compositionBooleanProps.check
BooleanPropsChecks == Checked(CompositionBooleanProps(project[1].path, project[1].lines, 1))

SpecBooleanProps == InitBooleanProps /\ [][BooleanPropsChecks]_vars

\* ---- hydration-browser-api

\* Lines of a file with a component.
MaxJsxLines == 4

\* Here a line is its tokens, each a word: return, a parenthesis, a
\* brace, a tag, a dotted name.
\* /\breturn\s*\(?\s*$/.test(trimmed) || /\breturn\s*\(</.test(trimmed)
ReturnOpens(line) ==
  \E p \in 1..Len(line) :
    /\ line[p] = "return"
    /\ \/ p = Len(line)
       \/ p + 1 = Len(line) /\ line[p + 1] = "("
       \/ p + 2 <= Len(line) /\ line[p + 1] = "(" /\ line[p + 2] \in {"<div>", "<p>"}

\* The browser APIs browserApiInJsx lists, and one it does not.
LISTED_BROWSER_APIS == {"window.innerWidth", "document.title", "localStorage.getItem"}

BROWSER_NAMES == LISTED_BROWSER_APIS \cup {"window.foo"}

\* browserApiInJsx: a `{` with a listed API behind it.
BrowserApiInJsx(line) ==
  \E p \in 1..(Len(line) - 1) : line[p] = "{" /\ line[p + 1] \in LISTED_BROWSER_APIS

\* apiMatch?.[1]: the first window., document., localStorage. or
\* sessionStorage. name of the line.
ApiName(line) ==
  LET hits == {p \in 1..Len(line) : line[p] \in BROWSER_NAMES}
  IN line[CHOOSE p \in hits : \A q \in hits : p <= q]

\* /\bmounted\b/.test(content) || isClient || isServer
HasMountedGuard(lines) ==
  \E i \in 1..Len(lines) : \E p \in 1..Len(lines[i]) :
    lines[i][p] \in {"mounted", "isClient", "isServer"}

\* /\.(test|spec|stories)\.[tj]sx?$/.test(filePath)
IsTestFile(filePath) ==
  \E kind \in {<<".", "t", "e", "s", "t">>, <<".", "s", "p", "e", "c">>, <<".", "s", "t", "o", "r", "i", "e", "s">>} :
    \E ext \in {<<".", "t", "s">>, <<".", "t", "s", "x">>, <<".", "j", "s">>, <<".", "j", "s", "x">>} : EndsWith(filePath, kind \o ext)

\* The count of the word in a line of words.
CountToken(line, word) == Cardinality({p \in 1..Len(line) : line[p] = word})

\* The loop of hydrationBrowserApi.check from line i on, entered with
\* inReturnBlock and braceDepth as the lines before left them.
RECURSIVE HydrationLoop(_, _, _, _, _)
HydrationLoop(filePath, lines, i, inReturnBlock, braceDepth) ==
  IF i > Len(lines) THEN <<>>
  ELSE LET line == lines[i]
           opened == ReturnOpens(line)
           in1 == inReturnBlock \/ opened
           d1 == (IF opened THEN 0 ELSE braceDepth)
                   + (IF in1 THEN CountToken(line, "(") - CountToken(line, ")") ELSE 0)
           in2 == in1 /\ ~(d1 < 0)
           d2 == IF in1 /\ d1 < 0 THEN 0 ELSE d1
       IN (IF in2 /\ ~HasMountedGuard(lines) /\ BrowserApiInJsx(line)
           THEN <<RuleIssue("critical", "hydration-browser-api", filePath, i, <<ApiName(line)>>)>>
           ELSE <<>>)
          \o HydrationLoop(filePath, lines, i + 1, in2, d2)

\* hydrationBrowserApi.check
HydrationBrowserApi(filePath, lines) ==
  IF ~EndsWith(filePath, <<".", "t", "s", "x">>) /\ ~EndsWith(filePath, <<".", "j", "s", "x">>) THEN <<>>
  ELSE IF IsTestFile(filePath) THEN <<>>
  ELSE HydrationLoop(filePath, lines, 1, FALSE, 0)

\* Lines of a component: the opening and the closing of a return block,
\* markup with and without a browser API, a return block on one line, the
\* end of a callback, a mounted guard.
JsxLines ==
  {<<"return", "(">>,
   <<"<div>">>,
   <<"<p>", "{", "window.innerWidth", "}", "</p>">>,
   <<"<p>", "{", "window.foo", "}", "</p>">>,
   <<")", ";">>,
   <<"return", "(", "<p>", "{", "document.title", "}", "</p>", ")", ";">>,
   <<"}", ")">>,
   <<"const", "mounted">>}

InitHydration ==
  \E lines \in Contents(JsxLines, MaxJsxLines) :
    \E path \in {<<"a", ".", "t", "s", "x">>, <<"a", ".", "t", "e", "s", "t", ".", "t", "s", "x">>, <<"a", ".", "t", "s">>} : OneFile(path, lines)

\* hydrationBrowserApi.check
HydrationChecks == Checked(HydrationBrowserApi(project[1].path, project[1].lines))

SpecHydration == InitHydration /\ [][HydrationChecks]_vars

\* ---- async-dependencies

\* Lines of a file with runs of awaits.
MaxRunLines == 5

\* The loop of asyncDependencies.check from line i on, entered with
\* consecutiveAwaits and firstAwaitLine as the lines before left them.
RECURSIVE AsyncDependenciesLoop(_, _, _, _, _)
AsyncDependenciesLoop(filePath, lines, i, consecutiveAwaits, firstAwaitLine) ==
  IF i > Len(lines) THEN <<>>
  ELSE LET line == Trim(lines[i]) IN
       IF MatchAwaitAssign(line) # <<>>
       THEN AsyncDependenciesLoop(filePath, lines, i + 1, consecutiveAwaits + 1,
                                  IF consecutiveAwaits = 0 THEN i ELSE firstAwaitLine)
       ELSE IF line = <<>> \/ HasAt(line, 1, <<"/", "/">>)
       THEN AsyncDependenciesLoop(filePath, lines, i + 1, consecutiveAwaits, firstAwaitLine)
       ELSE (IF consecutiveAwaits >= 3
             THEN <<RuleIssue("critical", "async-dependencies", filePath, firstAwaitLine,
                              <<consecutiveAwaits>>)>>
             ELSE <<>>)
            \o AsyncDependenciesLoop(filePath, lines, i + 1, 0, firstAwaitLine)

\* An await, an indented await, a blank line, a comment and a statement.
RunLines ==
  {<<"c", "o", "n", "s", "t", " ", "u", " ", "=", " ", "a", "w", "a", "i", "t", " ", "f", "(", ")", ";">>, <<" ", " ", "l", "e", "t", " ", "w", " ", "=", " ", "a", "w", "a", "i", "t", " ", " ", "h", "(", ")">>, <<>>, <<"/", "/", " ", "n", "e", "x", "t">>, <<"l", "o", "g", "(", ")", ";">>}

InitAsyncDependencies == \E lines \in Contents(RunLines, MaxRunLines) : OneFile(<<"a", ".", "t", "s">>, lines)

\* asyncDependencies.check
AsyncDependenciesChecks ==
  Checked(AsyncDependenciesLoop(project[1].path, project[1].lines, 1, 0, 0))

SpecAsyncDependencies == InitAsyncDependencies /\ [][AsyncDependenciesChecks]_vars

\* ---- async-api-routes

\* Lines of a route file.
MaxRouteLines == 6

LOOP_METHODS == {<<"G", "E", "T">>, <<"P", "O", "S", "T">>, <<"P", "U", "T">>, <<"P", "A", "T", "C", "H">>, <<"D", "E", "L", "E", "T", "E">>}

FILE_METHODS == LOOP_METHODS \cup {<<"H", "E", "A", "D">>, <<"O", "P", "T", "I", "O", "N", "S">>}

\* /export\s+(?:async\s+)?function\s+(?:GET|...)/.test(line), for the
\* method names given.
ExportsHandler(line, methods) ==
  \E p \in 1..Len(line) :
    /\ HasAt(line, p, <<"e", "x", "p", "o", "r", "t">>)
    /\ LET n1 == SpaceEnd(line, p + 6)
           n2 == IF HasAt(line, n1, <<"a", "s", "y", "n", "c">>) /\ SpaceEnd(line, n1 + 5) > n1 + 5
                 THEN SpaceEnd(line, n1 + 5) ELSE n1
           n3 == SpaceEnd(line, n2 + 8)
       IN /\ n1 > p + 6
          /\ HasAt(line, n2, <<"f", "u", "n", "c", "t", "i", "o", "n">>)
          /\ n3 > n2 + 8
          /\ \E m \in methods : HasAt(line, n3, m)

\* The loop of asyncApiRoutes.check from line i on, entered with
\* inHandler, consecutiveAwaits and firstLine as the lines before left
\* them.
RECURSIVE ApiRoutesLoop(_, _, _, _, _, _)
ApiRoutesLoop(filePath, lines, i, inHandler, consecutiveAwaits, firstLine) ==
  IF i > Len(lines) THEN <<>>
  ELSE LET line == Trim(lines[i]) IN
       IF ExportsHandler(line, LOOP_METHODS)
       THEN ApiRoutesLoop(filePath, lines, i + 1, TRUE, 0, firstLine)
       ELSE IF inHandler /\ MatchAwaitAssign(line) # <<>>
       THEN ApiRoutesLoop(filePath, lines, i + 1, TRUE, consecutiveAwaits + 1,
                          IF consecutiveAwaits = 0 THEN i ELSE firstLine)
       ELSE IF inHandler /\ HasAt(line, 1, <<"}">>) /\ consecutiveAwaits >= 2
       THEN <<RuleIssue("critical", "async-api-routes", filePath, firstLine,
                        <<consecutiveAwaits>>)>>
            \o ApiRoutesLoop(filePath, lines, i + 1, FALSE, 0, firstLine)
       ELSE ApiRoutesLoop(filePath, lines, i + 1, inHandler, consecutiveAwaits, firstLine)

\* asyncApiRoutes.check
AsyncApiRoutes(filePath, lines) ==
  IF ~(\/ IncludesText(filePath, <<"/", "a", "p", "i", "/">>)
       \/ IncludesText(filePath, <<"r", "o", "u", "t", "e", ".", "t", "s">>)
       \/ IncludesText(filePath, <<"r", "o", "u", "t", "e", ".", "j", "s">>))
  THEN <<>>
  ELSE IF ~\E i \in 1..Len(lines) : ExportsHandler(lines[i], FILE_METHODS) THEN <<>>
  ELSE ApiRoutesLoop(filePath, lines, 1, FALSE, 0, 0)

\* The opening of a handler and of another function, an await, another
\* statement and a closing brace.
RouteLines ==
  {<<"e", "x", "p", "o", "r", "t", " ", "a", "s", "y", "n", "c", " ", "f", "u", "n", "c", "t", "i", "o", "n", " ", "G", "E", "T", "(", ")", " ", "{">>, <<"a", "s", "y", "n", "c", " ", "f", "u", "n", "c", "t", "i", "o", "n", " ", "h", "e", "l", "p", "e", "r", "(", ")", " ", "{">>,
   <<" ", " ", "c", "o", "n", "s", "t", " ", "u", " ", "=", " ", "a", "w", "a", "i", "t", " ", "f", "(", ")", ";">>, <<" ", " ", "r", "e", "t", "u", "r", "n", " ", "u", ";">>, <<"}">>}

InitApiRoutes ==
  \/ \E lines \in Contents(RouteLines, MaxRouteLines) : OneFile(<<"a", "p", "p", "/", "a", "p", "i", "/", "x", ".", "t", "s">>, lines)
  \/ \E lines \in Contents(RouteLines, 2) :
       \E path \in {<<"a", ".", "t", "s">>, <<"r", "o", "u", "t", "e", ".", "t", "s">>} : OneFile(path, lines)

\* asyncApiRoutes.check
ApiRoutesChecks == Checked(AsyncApiRoutes(project[1].path, project[1].lines))

SpecApiRoutes == InitApiRoutes /\ [][ApiRoutesChecks]_vars

\* ------------------------------------------------------------------ the completion order

\* What the eight collaborators return in the runs compared: each finds
\* something, three of them a critical finding.
GivenOutputs ==
  [c \in CollaboratorSet |->
     CASE c = "oxlint" ->
            [issues |-> <<Issue("performance", "exhaustive-deps", "src/App.tsx", 7),
                          Issue("critical", "rules-of-hooks", "src/App.tsx", 9)>>,
             fileCount |-> 0]
       [] c = "deps" -> <<DepIssue("unused", "performance")>>
       [] c = "tsconfig" ->
            [issues |-> <<Issue("best-practice", "tsconfig-missing", "tsconfig.json", 0)>>,
             strictMode |-> FALSE, jsxTransform |-> NULL, target |-> NULL]
       [] c = "stats" -> Stats(NULL, 1, 0, 0)
       [] c = "asyncClient" -> <<Issue("critical", "async-client-component", "src/Page.tsx", 1)>>
       [] c = "console" -> <<Issue("info", "no-console", "src/App.tsx", 3)>>
       [] c = "vercel" -> <<Issue("critical", "async-parallel", "src/api.ts", 4),
                            Issue("performance", "bundle-conditional", "src/api.ts", 1)>>
       [] c = "security" -> AuditResult(<<Vuln(1, "high")>>)]

FulfilInOrder_slotByArrival(c) ==
  LET arrived == Cardinality({k \in 1..Len(settled) : settled[k] \in {"asyncClient", "console", "vercel"}})
      slot == IF c \in {"asyncClient", "console", "vercel"} THEN <<"asyncClient", "console", "vercel">>[arrived + 1] ELSE c
  IN /\ promise[c] = "pending"
     /\ value' = [value EXCEPT ![slot] = GivenOutputs[c]]
     /\ promise' = [promise EXCEPT ![c] = "fulfilled"]
     /\ settled' = Append(settled, c)
     /\ UNCHANGED <<diagnosePromise, scanResult, policyVars, vercelVars, cliVars, proc, project>>

\* A collaborator returns what it is given to return; Promise.all keeps
\* the value at the collaborator's place in the array.
FulfilInOrder(c) ==
  /\ promise[c] = "pending"
  /\ value' = [value EXCEPT ![c] = GivenOutputs[c]]
  /\ promise' = [promise EXCEPT ![c] = "fulfilled"]
  /\ settled' = Append(settled, c)
  /\ UNCHANGED <<diagnosePromise, scanResult, policyVars, vercelVars, cliVars, proc, project>>

NextOrder ==
  \/ \E c \in CollaboratorSet : FulfilInOrder(c)
  \/ DiagnoseResolve

SpecOrder == Init /\ [][NextOrder]_vars

\* ------------------------------------------------------------------ properties

Resolved == scanResult # <<>>

Result == scanResult[1]

\* The findings of one severity, in list order.
RECURSIVE OfSeverity(_, _)
OfSeverity(list, sev) ==
  IF list = <<>> THEN <<>>
  ELSE IF Head(list).severity = sev THEN <<Head(list)>> \o OfSeverity(Tail(list), sev)
  ELSE OfSeverity(Tail(list), sev)

Ordinal(sev) ==
  CASE sev = "critical" -> 0 [] sev = "performance" -> 1
    [] sev = "best-practice" -> 2 [] sev = "info" -> 3

\* C1: the issues of a ScanResult are in ascending severity ordinal
\* (critical 0 < performance 1 < best-practice 2 < info 3), and the findings
\* of each severity stand in the order they had in the concatenation of the
\* five sources.
C1_SortedStable ==
  Resolved =>
    /\ \A i, j \in 1..Len(Result.issues) :
         i < j => Ordinal(Result.issues[i].severity) <= Ordinal(Result.issues[j].severity)
    /\ \A sev \in Severity :
         OfSeverity(Result.issues, sev) =
           OfSeverity(value["oxlint"].issues \o value["tsconfig"].issues
                        \o value["asyncClient"] \o value["console"] \o value["vercel"],
                      sev)

\* A result whose sort moved findings and that holds two findings of one
\* severity from different sources.
C1_Witness ==
  /\ Resolved
  /\ Result.issues # CombineIssues(value)
  /\ \E i, j \in 1..Len(Result.issues) :
       /\ i < j
       /\ Result.issues[i].severity = Result.issues[j].severity
       /\ Result.issues[i].rule # Result.issues[j].rule

\* C2: the score of every ScanResult is an integer from 0 to 100.
C2_ScoreInRange == Resolved => Result.score \in 0..100

\* Seven critical advisories (105 points) and a score of 0.
C2_Witness ==
  /\ Resolved
  /\ Result.securityAudit.summary.critical * 15 > 100
  /\ Result.score = 0

NumIssues(sev) == Cardinality({i \in 1..Len(Result.issues) : Result.issues[i].severity = sev})

NumDeps(sev) ==
  Cardinality({i \in 1..Len(Result.dependencyIssues) :
                 Result.dependencyIssues[i].severity = sev})

NumVulns(sev) ==
  Cardinality({i \in 1..Len(Result.securityAudit.vulnerabilities) :
                 Result.securityAudit.vulnerabilities[i].severity = sev})

\* The penalty of the findings, dependency issues and advisories of the result.
FindingsPenalty ==
  10 * (NumIssues("critical") + NumDeps("critical"))
    + 3 * (NumIssues("performance") + NumDeps("performance"))
    + 1 * (NumIssues("best-practice") + NumDeps("best-practice"))
    + 0 * (NumIssues("info") + NumDeps("info"))
    + 15 * NumVulns("critical") + 8 * NumVulns("high")
    + 3 * NumVulns("moderate") + 1 * NumVulns("low")

UsesNext == Result.stats.nextVersion # NULL /\ Result.stats.nextVersion # ""

Components == Result.stats.clientComponents + Result.stats.serverComponents

\* 5 above four fifths, 2 above three fifths, else 0; only with Next.js and
\* at least one component.
RatioPenalty ==
  IF UsesNext /\ Components > 0
  THEN IF 5 * Result.stats.clientComponents > 4 * Components THEN 5
       ELSE IF 5 * Result.stats.clientComponents > 3 * Components THEN 2
       ELSE 0
  ELSE 0

\* C3: the score is max(0, 100 - P), P being 10/3/1/0 per finding and
\* dependency issue by severity, 15/8/3/1 per advisory by severity, plus
\* the client-ratio penalty.
C3_ScoreFormula ==
  Resolved =>
    Result.score = (IF 100 - (FindingsPenalty + RatioPenalty) > 0
                    THEN 100 - (FindingsPenalty + RatioPenalty) ELSE 0)

\* Two critical findings, one performance finding, nothing else: 77.
C3_Witness ==
  /\ Resolved
  /\ NumIssues("critical") = 2
  /\ NumIssues("performance") = 1
  /\ Len(Result.issues) = 3
  /\ Result.dependencyIssues = <<>>
  /\ Result.securityAudit.vulnerabilities = <<>>
  /\ RatioPenalty = 0
  /\ Result.score = 77

\* What the score lost beyond the penalty of the findings.
RatioDeduction == (100 - FindingsPenalty) - Result.score

\* C10: where nothing is clamped, the deduction for the client ratio is 5
\* above 0.8, 2 above 0.6 up to 0.8, else 0, and 0 without Next.js or
\* without components; 4 of 5 costs 2 and 3 of 5 costs 0.
C10_ClientRatioPenalty ==
  (Resolved /\ FindingsPenalty <= 95) =>
    /\ RatioDeduction \in {0, 2, 5}
    /\ RatioDeduction = RatioPenalty
    /\ (Result.stats.nextVersion = NULL \/ Components = 0) => RatioDeduction = 0
    /\ (UsesNext /\ Result.stats.clientComponents = 4 /\ Result.stats.serverComponents = 1)
         => RatioDeduction = 2
    /\ (UsesNext /\ Result.stats.clientComponents = 3 /\ Result.stats.serverComponents = 2)
         => RatioDeduction = 0

\* A Next.js project with 4 client components of 5, which costs 2.
C10_Witness ==
  /\ Resolved
  /\ FindingsPenalty <= 95
  /\ UsesNext
  /\ Result.stats.clientComponents = 4
  /\ Result.stats.serverComponents = 1
  /\ RatioDeduction = 2

\* C4: without a target the policy returns null; with target S it fails
\* exactly if a finding or a dependency issue has severity S or an advisory
\* has the tier that maps to S.
TierFor(sev) ==
  CASE sev = "critical" -> "critical" [] sev = "performance" -> "high"
    [] sev = "best-practice" -> "moderate" [] sev = "info" -> "low"

C4_ExactMatch ==
  policyDone =>
    /\ failOn = NULL => policyResult = <<>>
    /\ failOn \in Severity =>
         /\ policyResult # <<>>
         /\ policyResult[1].shouldFail <=>
              (NumIssues(failOn) + NumDeps(failOn) + NumVulns(TierFor(failOn)) > 0)

\* A result with a critical finding that passes the target performance.
C4_Witness ==
  /\ policyDone
  /\ failOn = "performance"
  /\ NumIssues("critical") > 0
  /\ policyResult # <<>>
  /\ ~policyResult[1].shouldFail

OnlyHighVulns ==
  /\ Result.issues = <<>>
  /\ Result.dependencyIssues = <<>>
  /\ NumVulns("high") > 0
  /\ NumVulns("high") = Len(Result.securityAudit.vulnerabilities)

\* C5: a result of high advisories only fails the target performance with
\* vulnerabilityMatches their number, and passes the target critical with
\* all counts 0.
C5_HighMapsToPerformance ==
  (policyDone /\ OnlyHighVulns) =>
    /\ failOn = "performance" =>
         /\ policyResult[1].shouldFail
         /\ policyResult[1].vulnerabilityMatches = NumVulns("high")
    /\ failOn = "critical" =>
         /\ ~policyResult[1].shouldFail
         /\ policyResult[1].issueMatches = 0
         /\ policyResult[1].dependencyMatches = 0
         /\ policyResult[1].vulnerabilityMatches = 0
         /\ policyResult[1].totalMatches = 0

\* Two high advisories and nothing else, evaluated against performance.
C5_Witness ==
  /\ policyDone
  /\ OnlyHighVulns
  /\ NumVulns("high") = 2
  /\ failOn = "performance"
  /\ policyResult[1].vulnerabilityMatches = 2

\* C6: a collaborator that throws does not make diagnose reject: the
\* failure never crosses the aggregator boundary.
C6_FailureAbsorbed ==
  (\E c \in CollaboratorSet : promise[c] = "rejected") => diagnosePromise # "rejected"

\* C7: a rule check that throws costs only its own findings: the other
\* rules still run on that file and runVercelRules does not reject.
C7_RuleFaultIsolated ==
  \A n \in 1..Len(checkLog) :
    (\E k \in 1..Len(checkLog[n].calls) : checkLog[n].calls[k] = "throws") =>
      /\ Len(checkLog[n].calls) = Len(RulesRun)
      /\ vercelPc # "rejected"

\* C8: a ScanResult exists only once all eight collaborators have
\* completed, and it holds all they returned.
C8_Barrier ==
  Resolved =>
    /\ \A c \in CollaboratorSet : promise[c] = "fulfilled"
    /\ Len(Result.issues) =
         Len(value["oxlint"].issues) + Len(value["tsconfig"].issues)
           + Len(value["asyncClient"]) + Len(value["console"]) + Len(value["vercel"])
    /\ Result.dependencyIssues = value["deps"]
    /\ Result.securityAudit = value["security"]

\* A result to which every collaborator contributed something.
C8_Witness ==
  /\ Resolved
  /\ value["oxlint"].issues # <<>>
  /\ value["tsconfig"].issues # <<>>
  /\ value["asyncClient"] # <<>>
  /\ value["console"] # <<>>
  /\ value["vercel"] # <<>>
  /\ value["deps"] # <<>>
  /\ value["security"].vulnerabilities # <<>>
  /\ Len(Result.issues) = 7

\* C9: when the linter reports 0 files, totalFiles is the sweep's count.
C9_FileCountFallback ==
  (Resolved /\ value["oxlint"].fileCount = 0) =>
    Result.stats.totalFiles = value["stats"].totalFiles

\* The linter reported 0 files and the sweep counted some.
C9_Witness ==
  /\ Resolved
  /\ value["oxlint"].fileCount = 0
  /\ value["stats"].totalFiles = MaxFiles
  /\ Result.stats.totalFiles = MaxFiles

\* No issues, no dependency issues and no advisories.
NoFindings ==
  /\ Result.issues = <<>>
  /\ Result.dependencyIssues = <<>>
  /\ Result.securityAudit.vulnerabilities = <<>>

\* C11 as stated: a scan with zero findings (no issues, no dependency
\* issues, no advisories) scores 100.
C11_ZeroFindingsScore100 == (Resolved /\ NoFindings) => Result.score = 100

\* C11 as amended: a scan with zero findings scores 100 unless the project
\* uses Next.js and more than 0.6 of its components are client components.
C11_ZeroFindingsNoRatio ==
  (Resolved /\ NoFindings
     /\ ~(UsesNext /\ 5 * Result.stats.clientComponents > 3 * Components))
    => Result.score = 100

\* Zero findings in a Next.js project with 3 client components of 5, and
\* zero findings in an all-client project without Next.js: both score 100.
C11_Witness ==
  /\ Resolved
  /\ NoFindings
  /\ Result.score = 100
  /\ \/ UsesNext /\ Result.stats.clientComponents = 3 /\ Result.stats.serverComponents = 2
     \/ ~UsesNext /\ Result.stats.clientComponents = MaxComponents
          /\ Result.stats.serverComponents = 0

Exited == cliPc = "exited"

\* C12: a process that ran its scan to the end exits with 1 exactly if
\* --fail-on is configured and evaluateFailOnPolicy reports shouldFail, and
\* with 0 without --fail-on whatever was found; a process whose diagnose or
\* whose report export threw exits with 1.
C12_ExitStatus ==
  Exited =>
    /\ policyDone =>
         /\ exitCode \in {<<0>>, <<1>>}
         /\ exitCode = <<1>> <=>
              (failOn # NULL /\ policyResult # <<>> /\ policyResult[1].shouldFail)
         /\ failOn = NULL => exitCode = <<0>>
         /\ failOn # NULL =>
              (exitCode = <<1>> <=>
                 NumIssues(failOn) + NumDeps(failOn) + NumVulns(TierFor(failOn)) > 0)
    /\ diagnosePromise = "rejected" => exitCode = <<1>>
    /\ (diagnosePromise = "fulfilled" /\ ~policyDone) => exitCode = <<1>>

\* A scan with --fail-on critical that found a critical advisory and exits
\* with 1.
C12_Witness ==
  /\ Exited
  /\ policyDone
  /\ failOn = "critical"
  /\ NumVulns("critical") = 1
  /\ policyResult[1].shouldFail
  /\ exitCode = <<1>>

\* The values --fail-on is given on a command line, as --fail-on=v or as
\* --fail-on v; <<>> is a missing value.
FailOnValues(argv) ==
  {SubSeq(argv[i], Len(FAIL_ON_FLAG) + 2, Len(argv[i])) :
     i \in {j \in 1..Len(argv) : StartsWith(argv[j], Append(FAIL_ON_FLAG, "="))}}
  \cup
  {IF i < Len(argv) /\ ~StartsWith(argv[i + 1], DASHES) THEN argv[i + 1] ELSE <<>> :
     i \in {j \in 1..Len(argv) : argv[j] = FAIL_ON_FLAG}}

SeverityNames == {validSeverities[k] : k \in 1..Len(validSeverities)}

HelpOrVersion == \E flag \in HELP_FLAGS \cup VERSION_FLAGS : Includes(args, flag)

\* C13 as stated: a command line that gives --fail-on a missing value or a
\* value that is no severity ends the process with a nonzero exit code
\* before diagnose is called.
C13_InvalidFailOnRejected ==
  (cliPc # "start" /\ \E v \in FailOnValues(args) : v \notin SeverityNames) =>
    /\ Exited
    /\ exitCode # <<0>>
    /\ diagnosePromise = "idle"

\* C13 as amended: a command line that gives --fail-on and gives it no
\* severity at all ends the process before diagnose is called, with exit
\* code 1, or 0 if a help or version flag is present; and no scan starts
\* with a target that is not a severity.
C13_NoScanWithInvalidTarget ==
  cliPc # "start" =>
    /\ (FailOnValues(args) # {} /\ FailOnValues(args) \cap SeverityNames = {}) =>
         /\ Exited
         /\ diagnosePromise = "idle"
         /\ exitCode = IF HelpOrVersion THEN <<0>> ELSE <<1>>
    /\ diagnosePromise # "idle" => failOn \in Severity \cup {NULL}

\* --fail-on with a missing value and no help flag: exit code 1, no scan.
C13_Witness ==
  /\ Exited
  /\ FailOnValues(args) = {<<>>}
  /\ ~HelpOrVersion
  /\ Len(args) = 2
  /\ exitCode = <<1>>
  /\ diagnosePromise = "idle"

\* C14: runOxlintScan never rejects; with the binary missing, with output
\* that is no JSON or JSON without a diagnostics array, or with zero files,
\* it resolves to no issues and fileCount 0.
C14_OxlintNeverThrows ==
  (proc # <<>> /\ cliPc = "idle") =>
    /\ promise["oxlint"] # "rejected"
    /\ (promise["oxlint"] = "fulfilled"
          /\ (~proc[1].spawned \/ JsonParse(proc[1].stdout) = <<>>
                \/ JsonParse(proc[1].stdout)[1].type # "object"
                \/ JsonParse(proc[1].stdout)[1].diagnostics = <<>>))
         => value["oxlint"] = EMPTY_SCAN

\* The pieces of a text from the first "{" to the last "}"; <<>> if there
\* is no such span.
BraceSpan(text) ==
  LET opening == {i \in 1..Len(text) : HoldsBrace(text[i], "{")}
      closing == {i \in 1..Len(text) : HoldsBrace(text[i], "}")}
  IN  IF opening = {} \/ closing = {} THEN <<>>
      ELSE IF \A i \in opening, j \in closing : j < i THEN <<>>
      ELSE SubSeq(text, CHOOSE i \in opening : \A k \in opening : i <= k,
                        CHOOSE j \in closing : \A k \in closing : k <= j)

\* The span is exactly one JSON object.
SpanIsObject(text) ==
  /\ Len(BraceSpan(text)) = 1
  /\ BraceSpan(text)[1].kind = "json"
  /\ BraceSpan(text)[1].value.type = "object"

\* C15: runSecurityAudit never rejects; when bun cannot be spawned, or its
\* stdout is empty, holds no "{"..."}" span, or holds a span that is no
\* JSON object, it resolves to the empty result.
C15_AuditNeverThrows ==
  proc # <<>> =>
    /\ promise["security"] # "rejected"
    /\ (promise["security"] = "fulfilled"
          /\ (~proc[1].spawned \/ proc[1].stdout = <<>> \/ ~SpanIsObject(proc[1].stdout)))
         => value["security"] = EmptyAudit

\* The audit printed a stray "{" before an object with an advisory, and
\* the result is empty.
C15_Witness ==
  /\ proc # <<>>
  /\ promise["security"] = "fulfilled"
  /\ Len(proc[1].stdout) = 2
  /\ proc[1].stdout[1] = LBRACE
  /\ proc[1].stdout[2].value.entries[1].advisories # <<<<>>>>
  /\ value["security"] = EmptyAudit

\* The advisories the audit printed, in document order.
PrintedAdvisories ==
  LET text == proc[1].stdout
      doc == text[CHOOSE i \in 1..Len(text) : text[i].kind = "json"]
  IN  Advisories(doc.value.entries)

\* raw equals word but for the case of its letters.
SameButCase(raw, word) ==
  /\ Len(raw) = Len(word)
  /\ \A i \in 1..Len(raw) :
       \/ raw[i] = word[i]
       \/ \E k \in 1..Len(LOWER) : LOWER[k] = word[i] /\ UPPER[k] = raw[i]

\* critical, high or moderate for a raw string that is that word in any
\* case, low for every other string.
TierOfRaw(raw) ==
  IF SameButCase(raw, <<"c", "r", "i", "t", "i", "c", "a", "l">>)
  THEN "critical"
  ELSE IF SameButCase(raw, <<"h", "i", "g", "h">>) THEN "high"
  ELSE IF SameButCase(raw, <<"m", "o", "d", "e", "r", "a", "t", "e">>)
  THEN "moderate"
  ELSE "low"

AuditedVulns == value["security"].vulnerabilities

\* C16: in a non-empty result every advisory printed is listed, with
\* severity critical, high or moderate if its raw severity is that word in
\* any case and low for any other string, and the list runs from critical
\* over high and moderate to low.
C16_NormalisedAndSorted ==
  (proc # <<>> /\ promise["security"] = "fulfilled" /\ AuditedVulns # <<>>) =>
    /\ Len(AuditedVulns) = Len(PrintedAdvisories)
    /\ \A i \in 1..Len(AuditedVulns) :
         LET advisory == PrintedAdvisories[AuditedVulns[i].id] IN
         advisory.severity.type = "string" =>
           AuditedVulns[i].severity = TierOfRaw(advisory.severity.chars)
    /\ \A i, j \in 1..Len(AuditedVulns) :
         i < j => VulnSeverityOrder[AuditedVulns[i].severity]
                    <= VulnSeverityOrder[AuditedVulns[j].severity]

\* Three advisories, the first of them not first in the result, one of
\* them printed as High and listed as high.
C16_Witness ==
  /\ proc # <<>>
  /\ promise["security"] = "fulfilled"
  /\ Len(AuditedVulns) = 3
  /\ AuditedVulns[1].id # 1
  /\ \E i \in 1..3 :
       /\ PrintedAdvisories[AuditedVulns[i].id].severity.type = "string"
       /\ PrintedAdvisories[AuditedVulns[i].id].severity.chars = <<"H", "i", "g", "h">>
       /\ AuditedVulns[i].severity = "high"

\* The rule of the registry a finding names.
RuleOf(issue) ==
  ALL_VERCEL_RULES[CHOOSE k \in 1..Len(ALL_VERCEL_RULES) : ALL_VERCEL_RULES[k].id = issue.rule]

\* C18: every finding in the issues of runVercelRules carries the severity
\* its rule declares, and the check of every rule of the registry writes
\* the rule's declared severity into its findings.
C18_SeverityIsDeclared ==
  /\ \A n \in 1..Len(vercelIssues) :
       /\ \E k \in 1..Len(ALL_VERCEL_RULES) : ALL_VERCEL_RULES[k].id = vercelIssues[n].rule
       /\ vercelIssues[n].severity = RuleOf(vercelIssues[n]).severity
  /\ \A k \in 1..Len(ALL_VERCEL_RULES) :
       ALL_VERCEL_RULES[k].emits = ALL_VERCEL_RULES[k].severity

\* A sweep that returned findings of two rules of different severity, the
\* last rule of the registry among them.
C18_Witness ==
  /\ vercelPc = "returned"
  /\ \E m, n \in 1..Len(vercelIssues) :
       /\ vercelIssues[m].severity # vercelIssues[n].severity
       /\ vercelIssues[n].rule = ALL_VERCEL_RULES[Len(ALL_VERCEL_RULES)].id

\* C19: the issues of a ScanResult never hold the same finding (rule, file,
\* line, column, message) twice, even if a source stream does.
C19_NoDuplicateIssues ==
  Resolved =>
    \A i, j \in 1..Len(Result.issues) : i # j => Result.issues[i] # Result.issues[j]

\* The path has a directory segment named node_modules, .next, dist, build
\* or .git, at any depth.
InsideSkippedDir(path) ==
  \E name \in SKIP_PREFIXES, i \in 1..Len(path) :
    /\ i = 1 \/ path[i - 1] = "/"
    /\ i + Len(name) <= Len(path)
    /\ SubSeq(path, i, i + Len(name) - 1) = name
    /\ path[i + Len(name)] = "/"

\* C20: of the files the glob yields, runVercelRules hands to the rules
\* exactly those that lie in no node_modules, .next, dist, build or .git
\* directory at any depth, and runs every rule on each of them.
C20_SkipsExactlySkippedDirs ==
  vercelPc = "returned" =>
    \A n \in 1..Len(scanFiles) :
      /\ (\E m \in 1..Len(checkLog) : checkLog[m].path = scanFiles[n])
           <=> ~InsideSkippedDir(scanFiles[n])
      /\ \A m \in 1..Len(checkLog) :
           checkLog[m].path = scanFiles[n] => Len(checkLog[m].calls) = Len(RulesRun)

\* checkDependencies has returned its issues.
DepsChecked == project # <<>> /\ promise["deps"] = "fulfilled"

DepsReported == {value["deps"][i] : i \in 1..Len(value["deps"])}

\* A scanned source file imports the package or a sub-path of it.
ImportedSomewhere(name) ==
  \E k \in 1..Len(project[1].files) :
    /\ ~\E prefix \in SKIP_DIR_PREFIXES : StartsWith(project[1].files[k].path, prefix)
    /\ \E s \in project[1].files[k].content : s = name \/ StartsWith(s, name \o <<"/">>)

\* A script holds the package name with a boundary on both sides.
WholeTokenSomewhere(name) ==
  \E k \in 1..Len(project[1].scripts) :
    LET command == project[1].scripts[k] IN
    \E i \in 1..Len(command) :
      /\ i + Len(name) - 1 <= Len(command)
      /\ SubSeq(command, i, i + Len(name) - 1) = name
      /\ IsPackageTokenBoundary(IF i > 1 THEN <<command[i - 1]>> ELSE <<>>)
      /\ IsPackageTokenBoundary(IF i + Len(name) <= Len(command)
                                THEN <<command[i + Len(name)]>> ELSE <<>>)

Unreferenced(name) == ~ImportedSomewhere(name) /\ ~WholeTokenSomewhere(name)

\* C21: checkDependencies reports a declared package as unused exactly if
\* no scanned source file imports it or a sub-path of it and no script
\* names it as a whole token: with severity performance when declared in
\* dependencies, best-practice when declared in devDependencies.
C21_UnusedIffUnreferenced ==
  DepsChecked =>
    /\ \A d \in Keys(project[1].dependencies) :
         PackageIssue("unused", "performance", d, "dependencies") \in DepsReported
           <=> Unreferenced(d)
    /\ \A d \in Keys(project[1].devDependencies) :
         PackageIssue("unused", "best-practice", d, "devDependencies") \in DepsReported
           <=> Unreferenced(d)
    /\ \A issue \in DepsReported :
         issue.type = "unused" =>
           \/ /\ issue.severity = "performance"
              /\ issue.message[2] = "dependencies"
              /\ issue.message[1] \in Keys(project[1].dependencies)
           \/ /\ issue.severity = "best-practice"
              /\ issue.message[2] = "devDependencies"
              /\ issue.message[1] \in Keys(project[1].devDependencies)

\* A rule has been run on the file.
RuleRan == project # <<>> /\ vercelPc = "returned"

FileLines == project[1].lines

\* The identifiers of s from position p on: its maximal runs of word
\* characters.
Identifiers(s, p) ==
  {SubSeq(s, a, b) : <<a, b>> \in
     {ab \in (p..Len(s)) \X (p..Len(s)) :
        /\ ab[1] <= ab[2]
        /\ \A j \in ab[1]..ab[2] : IsWordChar(s[j])
        /\ ab[1] = p \/ ~IsWordChar(s[ab[1] - 1])
        /\ ab[2] = Len(s) \/ ~IsWordChar(s[ab[2] + 1])}}

\* Lines i and i + 1 are await-assignments and the call of the later one
\* does not name the variable of the earlier one.
IndependentPair(i) ==
  LET cur == MatchAwaitAssign(Trim(FileLines[i]))
      nxt == MatchAwaitAssign(Trim(FileLines[i + 1]))
  IN /\ cur # <<>>
     /\ nxt # <<>>
     /\ cur[1].name \notin Identifiers(Trim(FileLines[i + 1]), nxt[1].end)

FindingsAt(i) == {k \in 1..Len(vercelIssues) : vercelIssues[k].line = i}

\* C22: async-parallel reports every pair of adjacent await-assignments
\* whose later call does not name the earlier variable exactly once, as a
\* critical finding that names both variables and Promise.all, and
\* reports nothing else.
C22_OnePerIndependentPair ==
  RuleRan =>
    /\ \A k \in 1..Len(vercelIssues) : vercelIssues[k].line \in 1..(Len(FileLines) - 1)
    /\ \A i \in 1..(Len(FileLines) - 1) :
         IF IndependentPair(i)
         THEN /\ Cardinality(FindingsAt(i)) = 1
              /\ \A k \in FindingsAt(i) :
                   /\ vercelIssues[k].severity = "critical"
                   /\ vercelIssues[k].message =
                        <<MatchAwaitAssign(Trim(FileLines[i]))[1].name,
                          MatchAwaitAssign(Trim(FileLines[i + 1]))[1].name, "Promise.all">>
         ELSE FindingsAt(i) = {}

\* The line on which the braces opened from line i on are matched: the
\* first line from i on after which a brace has been opened and all are
\* closed; the last line when there is none.
MatchedEnd(i) ==
  LET open(j) == CountWord(FileLines[j], <<"{">>)
      close(j) == CountWord(FileLines[j], <<"}">>)
      Opened[j \in i..Len(FileLines)] == open(j) + (IF j = i THEN 0 ELSE Opened[j - 1])
      Closed[j \in i..Len(FileLines)] == close(j) + (IF j = i THEN 0 ELSE Closed[j - 1])
      ends == {j \in i..Len(FileLines) : Opened[j] > 0 /\ Closed[j] >= Opened[j]}
  IN IF ends = {} THEN Len(FileLines) ELSE CHOOSE j \in ends : \A k \in ends : j <= k

IsComponentFile ==
  EndsWith(project[1].path, <<".", "t", "s", "x">>) \/ EndsWith(project[1].path, <<".", "j", "s", "x">>)

\* C23: composition-boolean-props reports, in a .tsx or .jsx file, every
\* Props block whose brace-matched body holds three or more boolean
\* fields with a boolean prefix exactly once, with the count and the
\* names in the message, and reports nothing else.
C23_OnePerBooleanBlock ==
  RuleRan =>
    /\ \A k \in 1..Len(vercelIssues) : vercelIssues[k].line \in 1..Len(FileLines)
    /\ \A i \in 1..Len(FileLines) :
         LET names == BoolProps(FileLines, i, MatchedEnd(i)) IN
         IF IsComponentFile /\ PropsOpen(FileLines[i]) /\ Len(names) >= 3
         THEN /\ Cardinality(FindingsAt(i)) = 1
              /\ \A k \in FindingsAt(i) : vercelIssues[k].message = <<Len(names), names>>
         ELSE FindingsAt(i) = {}

\* The last line up to line i that opens a return block; 0 when none does.
LastReturn(i) ==
  LET opens == {r \in 1..i : ReturnOpens(FileLines[r])}
  IN IF opens = {} THEN 0 ELSE CHOOSE r \in opens : \A q \in opens : q <= r

\* The line on which the parenthesis opened at line r is closed: the first
\* line from r on after which a parenthesis has been opened and all are
\* closed; the last line when there is none.
ReturnEnd(r) ==
  LET Opened[j \in r..Len(FileLines)] ==
        CountToken(FileLines[j], "(") + (IF j = r THEN 0 ELSE Opened[j - 1])
      Closed[j \in r..Len(FileLines)] ==
        CountToken(FileLines[j], ")") + (IF j = r THEN 0 ELSE Closed[j - 1])
      ends == {j \in r..Len(FileLines) : Opened[j] > 0 /\ Closed[j] >= Opened[j]}
  IN IF ends = {} THEN Len(FileLines) ELSE CHOOSE j \in ends : \A k \in ends : j <= k

\* Line i lies between the opening line of a return block and the line
\* that closes it, both included.
InsideReturn(i) == LastReturn(i) > 0 /\ i <= ReturnEnd(LastReturn(i))

\* C24: hydration-browser-api flags only lines inside a return block: a
\* line behind the line that closes the block, and before the next
\* return, is never flagged.
C24_OnlyInsideReturn ==
  RuleRan => \A k \in 1..Len(vercelIssues) : InsideReturn(vercelIssues[k].line)

IsAwaitLine(i) == MatchAwaitAssign(Trim(FileLines[i])) # <<>>

\* A blank line or a // comment.
IsSkippedLine(i) ==
  Trim(FileLines[i]) = <<>> \/ HasAt(Trim(FileLines[i]), 1, <<"/", "/">>)

\* Lines s..e hold nothing but awaits, blank lines and comments.
Unbroken(s, e) == \A j \in s..e : IsAwaitLine(j) \/ IsSkippedLine(j)

\* Line s is the first await of a maximal run.
RunStart(s) ==
  /\ IsAwaitLine(s)
  /\ ~\E p \in 1..(s - 1) : IsAwaitLine(p) /\ Unbroken(p, s)

\* The awaits of the run that starts at line s.
RunLength(s) ==
  Cardinality({j \in s..Len(FileLines) : IsAwaitLine(j) /\ Unbroken(s, j)})

\* C25: async-dependencies reports every maximal run of three or more
\* await-assignments exactly once, at the first line of the run and with
\* the length of the run, the run at the end of the file included, and
\* reports nothing else.
C25_OnePerRun ==
  RuleRan =>
    /\ \A k \in 1..Len(vercelIssues) : vercelIssues[k].line \in 1..Len(FileLines)
    /\ \A s \in 1..Len(FileLines) :
         IF RunStart(s) /\ RunLength(s) >= 3
         THEN /\ Cardinality(FindingsAt(s)) = 1
              /\ \A k \in FindingsAt(s) :
                   /\ vercelIssues[k].severity = "critical"
                   /\ vercelIssues[k].message = <<RunLength(s)>>
         ELSE FindingsAt(s) = {}

IsHandlerLine(i) == ExportsHandler(Trim(FileLines[i]), LOOP_METHODS)

IsClosingLine(i) == HasAt(Trim(FileLines[i]), 1, <<"}">>)

\* The line that ends the body of the handler opened on line h: the first
\* line behind h that starts with a closing brace (the bodies looked at
\* hold no nested block); behind the last line when there is none.
BodyEnd(h) ==
  LET ends == {e \in (h + 1)..Len(FileLines) : IsClosingLine(e)}
  IN IF ends = {} THEN Len(FileLines) + 1 ELSE CHOOSE e \in ends : \A k \in ends : e <= k

\* The await-assignments in the body of the handler opened on line h.
AwaitsOfHandler(h) == {j \in (h + 1)..(BodyEnd(h) - 1) : IsAwaitLine(j)}

\* C30: every finding of async-api-routes lies in the body of one
\* exported handler and states the number of await-assignments of that
\* body; awaits behind the end of the body count for nothing.
C30_CountsOneHandler ==
  RuleRan =>
    \A k \in 1..Len(vercelIssues) :
      \E h \in 1..Len(FileLines) :
        /\ IsHandlerLine(h)
        /\ vercelIssues[k].line \in AwaitsOfHandler(h)
        /\ vercelIssues[k].message = <<Cardinality(AwaitsOfHandler(h))>>

\* The findings given, linter first, then tsconfig, async-client, console
\* and the Vercel rules.
GivenFindings ==
  GivenOutputs["oxlint"].issues \o GivenOutputs["tsconfig"].issues
    \o GivenOutputs["asyncClient"] \o GivenOutputs["console"] \o GivenOutputs["vercel"]

\* C26: whatever the order in which the eight collaborators complete, the
\* ScanResult is the one their outputs determine: findings of equal
\* severity stand in the order linter, tsconfig, async-client, console,
\* Vercel rules, and score, stats, dependency issues and audit are the same.
C26_SameForEveryOrder ==
  Resolved =>
    /\ Len(settled) = Len(Collaborators)
    /\ \A sev \in Severity : OfSeverity(Result.issues, sev) = OfSeverity(GivenFindings, sev)
    /\ Len(Result.issues) = Len(GivenFindings)
    /\ Result.dependencyIssues = GivenOutputs["deps"]
    /\ Result.securityAudit = GivenOutputs["security"]
    /\ Result.score = Aggregate(GivenOutputs).score
    /\ Result.stats = Aggregate(GivenOutputs).stats

\* The collaborators completed in the reverse of the order of the array.
C26_Witness ==
  /\ Resolved
  /\ settled = <<"security", "vercel", "console", "asyncClient", "stats", "tsconfig", "deps", "oxlint">>

\* C27: a policy result that is not null has totalMatches = issueMatches +
\* dependencyMatches + vulnerabilityMatches, echoes the target in failOn,
\* holds totalMatches in the target's bucket of matchedBySeverity and 0 in
\* the three others; the ScanResult is as diagnose built it.
C27_PolicyResultConsistent ==
  (policyDone /\ policyResult # <<>>) =>
    LET r == policyResult[1] IN
    /\ r.totalMatches = r.issueMatches + r.dependencyMatches + r.vulnerabilityMatches
    /\ r.failOn = failOn
    /\ r.matchedBySeverity[failOn] = r.totalMatches
    /\ \A sev \in Severity \ {failOn} : r.matchedBySeverity[sev] = 0
    /\ Result = Aggregate(value)

\* A result in which a finding, a dependency issue and an advisory match
\* the target and findings of another severity stand beside them.
C27_Witness ==
  /\ policyDone
  /\ policyResult # <<>>
  /\ policyResult[1].issueMatches > 0
  /\ policyResult[1].dependencyMatches > 0
  /\ policyResult[1].vulnerabilityMatches > 0
  /\ \E sev \in Severity \ {failOn} : NumIssues(sev) > 0

\* C28: in every result of runSecurityAudit each of summary.critical,
\* high, moderate and low is the number of listed vulnerabilities of that
\* severity, and summary.total is their sum and the length of the list.
C28_SummaryMatchesList ==
  (proc # <<>> /\ promise["security"] = "fulfilled") =>
    LET summary == value["security"].summary IN
    /\ \A sev \in VulnerabilitySeverity :
         summary[sev] = Cardinality({i \in 1..Len(AuditedVulns) : AuditedVulns[i].severity = sev})
    /\ summary.total = Len(AuditedVulns)
    /\ summary.total = summary.critical + summary.high + summary.moderate + summary.low

\* Three advisories listed, one of them low because its raw severity is
\* no known word, one of a higher tier.
C28_Witness ==
  /\ proc # <<>>
  /\ promise["security"] = "fulfilled"
  /\ Len(AuditedVulns) = 3
  /\ \E i \in 1..3 :
       /\ AuditedVulns[i].severity = "low"
       /\ PrintedAdvisories[AuditedVulns[i].id].severity.type = "string"
       /\ PrintedAdvisories[AuditedVulns[i].id].severity.chars = <<"u", "r", "g", "e", "n", "t">>
  /\ \E i \in 1..3 : AuditedVulns[i].severity = "critical"

\* The place in argv of the token parseOptionValue consumes as the value
\* of a space-separated --fail-on; 0 when it consumes none.
ConsumedValue(argv) ==
  IF \E i \in 1..Len(argv) : StartsWith(argv[i], FAIL_ON_FLAG \o <<"=">>) THEN 0
  ELSE IF ~Includes(argv, FAIL_ON_FLAG) THEN 0
  ELSE LET i == CHOOSE k \in 1..Len(argv) :
                  argv[k] = FAIL_ON_FLAG /\ \A j \in 1..(k - 1) : argv[j] # FAIL_ON_FLAG
       IN IF i < Len(argv) /\ IsPositional(argv[i + 1]) THEN i + 1 ELSE 0

\* The positional arguments that are no option value.
RealPositionals(argv) ==
  LET idx == {k \in 1..Len(argv) : IsPositional(argv[k]) /\ k # ConsumedValue(argv)}
  IN IF idx = {} THEN <<>> ELSE <<argv[CHOOSE k \in idx : \A j \in idx : k <= j]>>

\* C29: the token consumed as the value of a space-separated --fail-on is
\* never taken as the target path: the scan targets the first positional
\* argument that is no option value, or the working directory.
C29_ValueIsNoTarget ==
  targetPath # <<>> =>
    targetPath = Resolve(IF RealPositionals(args) = <<>> THEN <<".">> ELSE RealPositionals(args)[1])

====
